---- MODULE Spec2Model ----
(***************************************************************************)
(* NeuroCal v2: the StressAnalyzer core (8-channel stress computation from *)
(* 68 facial landmarks) and the state it keeps across frames.              *)
(*                                                                         *)
(* JavaScript numbers are modelled as exact rationals [n, d] in lowest     *)
(* terms with d > 0, extended by the three non-finite doubles, written     *)
(* with d = 0:  1/0 = +Infinity,  -1/0 = -Infinity,  0/0 = NaN.            *)
(* Rounding error of IEEE doubles is not modelled; the propagation of NaN  *)
(* and Infinity through +, -, *, /, comparisons, Math.min, Math.max and    *)
(* Math.round is.  Label strings of the readings are not modelled.         *)
(***************************************************************************)
EXTENDS Integers, Sequences, FiniteSets, TLC

(* ------------------------------------------------------------------ *)
(* Number arithmetic                                                    *)
(* ------------------------------------------------------------------ *)

AbsInt(i) == IF i < 0 THEN -i ELSE i

SignInt(i) == IF i < 0 THEN -1 ELSE IF i > 0 THEN 1 ELSE 0

RECURSIVE Gcd(_, _)
Gcd(a, b) == IF b = 0 THEN a ELSE Gcd(b, a % b)

\* the number n/d: lowest terms, d > 0; d = 0 gives +Infinity, -Infinity or NaN
Q(n, d) ==
    IF d = 0 THEN [n |-> SignInt(n), d |-> 0]
    ELSE LET g == Gcd(AbsInt(n), AbsInt(d))
             s == IF d < 0 THEN -1 ELSE 1
         IN  [n |-> s * (n \div g), d |-> s * (d \div g)]

Num(i) == [n |-> i, d |-> 1]

NaN    == [n |-> 0, d |-> 0]
PosInf == [n |-> 1, d |-> 0]
NegInf == [n |-> -1, d |-> 0]

IsNaN(x)    == x.d = 0 /\ x.n = 0
IsFinite(x) == x.d > 0
IsInteger(x) == x.d = 1

Neg(x) == [n |-> -x.n, d |-> x.d]

\* x + y
Add(x, y) ==
    IF IsNaN(x) \/ IsNaN(y) THEN NaN
    ELSE IF x.d = 0 /\ y.d = 0 THEN (IF x.n = y.n THEN x ELSE NaN)
    ELSE IF x.d = 0 THEN x
    ELSE IF y.d = 0 THEN y
    ELSE Q(x.n * y.d + y.n * x.d, x.d * y.d)

\* x - y
Sub(x, y) == Add(x, Neg(y))

\* x * y  (Infinity * 0 and NaN * y come out as 0/0 = NaN)
Mul(x, y) ==
    IF x.d = 0 \/ y.d = 0 THEN Q(x.n * y.n, 0)
    ELSE LET g1 == Gcd(AbsInt(x.n), y.d)
             g2 == Gcd(AbsInt(y.n), x.d)
         IN  Q((x.n \div g1) * (y.n \div g2), (x.d \div g2) * (y.d \div g1))

\* 1 / y, for a y that is never -0
Inv(y) == Q(y.d, y.n)

\* x / y
Div(x, y) == Mul(x, Inv(y))

\* x < y; false as soon as one side is NaN
Lt(x, y) ==
    /\ ~IsNaN(x)
    /\ ~IsNaN(y)
    /\ x # y
    /\ IF x.d = 0 THEN x.n < 0
       ELSE IF y.d = 0 THEN y.n > 0
       ELSE x.n * y.d < y.n * x.d

\* x >= y; false as soon as one side is NaN
Ge(x, y) == ~IsNaN(x) /\ ~IsNaN(y) /\ ~Lt(x, y)

\* x <= y
Le(x, y) == Ge(y, x)

\* x > y
Gt(x, y) == Lt(y, x)

\* Math.min(x, y): NaN when either argument is NaN
MathMin(x, y) == IF IsNaN(x) \/ IsNaN(y) THEN NaN ELSE IF Lt(y, x) THEN y ELSE x

\* Math.max(x, y): NaN when either argument is NaN
MathMax(x, y) == IF IsNaN(x) \/ IsNaN(y) THEN NaN ELSE IF Lt(x, y) THEN y ELSE x

\* Math.abs(x)
MathAbs(x) == [n |-> AbsInt(x.n), d |-> x.d]

\* Math.round(x) = floor(x + 0.5); NaN and the infinities are returned as they are
MathRound(x) == IF x.d = 0 THEN x ELSE Num((2 * x.n + x.d) \div (2 * x.d))

\* the integer square root, exact on the perfect squares the landmark grids produce
RECURSIVE Newton(_, _)
Newton(k, x) == LET y == (x + k \div x) \div 2 IN IF y >= x THEN x ELSE Newton(k, y)

ISqrt(k) == IF k < 2 THEN k ELSE Newton(k, k)

\* Math.sqrt of a non-negative integer
MathSqrt(k) == Num(ISqrt(k))

(* ------------------------------------------------------------------ *)
(* StressAnalyzer: constants and construction                          *)
(* ------------------------------------------------------------------ *)

MAX_HISTORY == 120

MAX_MOV_BUF == 12

EAR_THRESHOLD == Q(21, 100)

\* the fallback face size of `box.width || 200`
DefaultFaceSize == 200

\* the blink window of `now - t < 60000`
BlinkWindowMs == 60000

\* null and a present value, so that both compare with =
Null == <<>>
Some(v) == <<v>>

\* the fields the constructor sets; blinkWindowStart is Date.now() at construction
NewAnalyzer(now) ==
    [ history          |-> <<>>,
      blinkCount       |-> 0,
      blinkWindowStart |-> now,
      eyeWasClosed     |-> FALSE,
      prevNose         |-> Null,
      headMovBuf       |-> <<>>,
      blinkTimestamps  |-> <<>>,
      frameCount       |-> 0,
      prevPose         |-> [pitch |-> Num(0), yaw |-> Num(0), roll |-> Num(0)],
      sessionScores    |-> <<>>,
      totalFrames      |-> 0 ]

(* ------------------------------------------------------------------ *)
(* Signal methods                                                       *)
(* ------------------------------------------------------------------ *)

\* Math.sqrt((a.x - b.x) ** 2 + (a.y - b.y) ** 2)
_dist(a, b) == MathSqrt((a.x - b.x) * (a.x - b.x) + (a.y - b.y) * (a.y - b.y))

\* (A + B) / (2.0 * C): the denominator is not guarded
_ear(pts, p1, p2, p3, p4, p5, p6) ==
    LET A == _dist(pts[p2], pts[p6])
        B == _dist(pts[p3], pts[p5])
        C == _dist(pts[p1], pts[p4])
    IN  Div(Add(A, B), Mul(Num(2), C))


\* an eye openness normalised from EAR 0 instead of EAR 0.1
_eyeOpennessFromZero(pts, faceSize) ==
    LET earL == _ear(pts, 36, 37, 38, 39, 40, 41)
        earR == _ear(pts, 42, 43, 44, 45, 46, 47)
        ear  == Div(Add(earL, earR), Num(2))
        normalized == MathMin(Num(1), MathMax(Num(0), Div(ear, Q(3, 10))))
    IN  [ear |-> ear, normalized |-> normalized, earL |-> earL, earR |-> earR]


_eyeOpenness(pts, faceSize) ==
    LET earL == _ear(pts, 36, 37, 38, 39, 40, 41)
        earR == _ear(pts, 42, 43, 44, 45, 46, 47)
        ear  == Div(Add(earL, earR), Num(2))
        normalized == MathMin(Num(1), MathMax(Num(0), Div(Sub(ear, Q(1, 10)), Q(3, 10))))
    IN  [ear |-> ear, normalized |-> normalized, earL |-> earL, earR |-> earR]

_browTension(pts, faceSize) ==
    LET lBrowY == Q(pts[18].y + pts[19].y + pts[20].y, 3)
        rBrowY == Q(pts[23].y + pts[24].y + pts[25].y, 3)
        lEyeY  == Q(pts[37].y + pts[38].y + pts[40].y + pts[41].y, 4)
        rEyeY  == Q(pts[43].y + pts[44].y + pts[46].y + pts[47].y, 4)
        gap    == Div(Add(Sub(lEyeY, lBrowY), Sub(rEyeY, rBrowY)), Num(2))
        normalized ==
            MathMin(Num(1), MathMax(Num(0),
                Sub(Num(1), Div(gap, Mul(Q(18, 100), Num(faceSize))))))
    IN  [gap |-> gap, normalized |-> normalized]

_mouthTension(pts, faceSize) ==
    LET mW == _dist(pts[48], pts[54])
        mH == _dist(pts[51], pts[57])
        ratio == Div(mH, Add(mW, Q(1, 1000)))
        normalized == MathMin(Num(1), MathMax(Num(0), Sub(Num(1), Div(ratio, Q(3, 10)))))
    IN  [ratio |-> ratio, normalized |-> normalized]

\* no lower clamp: asym is an absolute value and faceSize is positive
_asymmetry(pts, faceSize) ==
    LET nose  == pts[30]
        lEyeX == Q(pts[36].x + pts[39].x, 2)
        rEyeX == Q(pts[42].x + pts[45].x, 2)
        eyeDiff   == MathAbs(Sub(Sub(Num(nose.x), lEyeX), Sub(rEyeX, Num(nose.x))))
        mouthDiff == Num(AbsInt((nose.x - pts[48].x) - (pts[54].x - nose.x)))
        asym  == Div(Add(eyeDiff, mouthDiff), Num(2))
        normalized == MathMin(Num(1), Div(asym, Mul(Q(5, 100), Num(faceSize))))
    IN  [value |-> asym, normalized |-> normalized]

\* q.reduce((a, b) => a + b, 0); the exact sum does not depend on the order
\* of the additions, so the sequence is summed by halves
RECURSIVE SumSeq(_)
SumSeq(q) ==
    IF Len(q) = 0 THEN Num(0)
    ELSE IF Len(q) = 1 THEN q[1]
    ELSE Add(SumSeq(SubSeq(q, 1, Len(q) \div 2)),
             SumSeq(SubSeq(q, Len(q) \div 2 + 1, Len(q))))

\* a buffer that shifts one sample too late
PushCappedLate(buf, v, cap) ==
    LET b == Append(buf, v) IN IF Len(b) > cap + 1 THEN Tail(b) ELSE b

\* push, then shift once the buffer is longer than cap
PushCapped(buf, v, cap) ==
    LET b == Append(buf, v) IN IF Len(b) > cap THEN Tail(b) ELSE b

\* the head-movement buffer and the previous nose position after this frame
HeadMovementState(st, pts, faceSize) ==
    LET c == pts[30]
        buf == IF st.prevNose # Null
               THEN LET dx == c.x - st.prevNose[1].x
                        dy == c.y - st.prevNose[1].y
                        mov == Div(MathSqrt(dx * dx + dy * dy), Num(faceSize))
                    IN  PushCapped(st.headMovBuf, mov, MAX_MOV_BUF)
               ELSE st.headMovBuf
    IN  [st EXCEPT !.headMovBuf = buf, !.prevNose = Some([x |-> c.x, y |-> c.y])]

\* the mean of the buffer, 0 for an empty one
BufferAverage(buf) == IF Len(buf) > 0 THEN Div(SumSeq(buf), Num(Len(buf))) ELSE Num(0)

\* the reading for a buffer average
MovementReading(avg) == [value |-> avg, normalized |-> MathMin(Num(1), Div(avg, Q(5, 100)))]

\* the reading _headMovement returns, from the buffer it has just updated
_headMovement(st, pts, faceSize) ==
    MovementReading(BufferAverage(HeadMovementState(st, pts, faceSize).headMovBuf))

\* a window that also keeps a timestamp exactly 60000 ms old
InWindowInclusive(now, t) == now - t <= 60000

\* the test of the rolling window's filter: t => now - t < 60000
InWindow(now, t) == now - t < BlinkWindowMs

\* blinkTimestamps.filter(t => now - t < 60000)
FilterWindow(ts, now) == SelectSeq(ts, LAMBDA t : InWindow(now, t))

\* a detector without the latch: every open frame records a blink
BlinkRecordedUnlatched(st, ear) == Ge(ear, Q(21, 100))

\* the two-state latch: whether this frame records a blink timestamp
BlinkRecorded(st, ear) == Ge(ear, EAR_THRESHOLD) /\ st.eyeWasClosed

\* the latch after this frame: set on a closed frame, cleared on an open one
LatchAfter(st, ear) ==
    IF Lt(ear, EAR_THRESHOLD) /\ ~st.eyeWasClosed THEN TRUE
    ELSE IF Ge(ear, EAR_THRESHOLD) /\ st.eyeWasClosed THEN FALSE
    ELSE st.eyeWasClosed

\* the latch and the timestamp list after _blinkRate
BlinkRateState(st, ear, now) ==
    LET pushed == IF ~(Lt(ear, EAR_THRESHOLD) /\ ~st.eyeWasClosed) /\ BlinkRecorded(st, ear)
                  THEN Append(st.blinkTimestamps, now)
                  ELSE st.blinkTimestamps
    IN  [st EXCEPT !.eyeWasClosed = LatchAfter(st, ear),
                   !.blinkTimestamps = FilterWindow(pushed, now)]


\* a normalisation that saturates ten blinks above 25
BlinkNormalizedSteep(bpm) ==
    IF bpm < 8 THEN Q(8 - bpm, 8)
    ELSE IF bpm > 25 THEN MathMin(Num(1), Q(bpm - 25, 10))
    ELSE Num(0)

\* a normalisation that charges nothing for a low blink count
BlinkNormalizedNoLow(bpm) ==
    IF bpm > 25 THEN MathMin(Num(1), Q(bpm - 25, 20)) ELSE Num(0)

\* the piecewise normalisation of the blink count
BlinkNormalized(bpm) ==
    IF bpm < 8 THEN Q(8 - bpm, 8)
    ELSE IF bpm > 25 THEN MathMin(Num(1), Q(bpm - 25, 20))
    ELSE Num(0)

\* the reading _blinkRate returns
_blinkRate(st, ear, now) ==
    LET bpm == Len(BlinkRateState(st, ear, now).blinkTimestamps)
    IN  [bpm |-> bpm, normalized |-> BlinkNormalized(bpm)]

_focusScore(eyeOpenness, browTension, headMovement) ==
    LET raw == Add(Add(Mul(eyeOpenness.normalized, Q(5, 10)),
                       Mul(Sub(Num(1), browTension.normalized), Q(3, 10))),
                   Mul(Sub(Num(1), headMovement.normalized), Q(2, 10)))
    IN  [normalized |-> MathMin(Num(1), MathMax(Num(0), raw))]

\* Math.round(Math.atan2(dy, dx) * (180 / Math.PI)) on the eight principal
\* directions (and atan2(0, 0) = 0), the only eye-line tilts the frames have
RollDegrees(dy, dx) ==
    CASE dy = 0 /\ dx >= 0 -> 0
      [] dy = 0 /\ dx < 0  -> 180
      [] dx = 0 /\ dy > 0  -> 90
      [] dx = 0 /\ dy < 0  -> -90
      [] dy = dx /\ dx > 0 -> 45
      [] dy = dx /\ dx < 0 -> -135
      [] dy = -dx /\ dx > 0 -> -45
      [] dy = -dx /\ dx < 0 -> 135

\* a head pose whose yaw is measured from the left eye, not from the midline
_headPoseFromLeftEye(pts, faceSize) ==
    LET eyeMidY  == Q(pts[36].y + pts[45].y, 2)
        noseTip  == pts[30]
        mouthMid == Q(pts[48].y + pts[54].y, 2)
        faceH    == Sub(mouthMid, eyeMidY)
        pitchRaw == Mul(Sub(Div(Sub(Num(noseTip.y), eyeMidY), Add(faceH, Q(1, 1000))),
                            Q(45, 100)), Num(2))
        pitch    == MathRound(Mul(pitchRaw, Num(35)))
        lEyeX == Q(pts[36].x + pts[39].x, 2)
        rEyeX == Q(pts[42].x + pts[45].x, 2)
        eyeW  == Sub(rEyeX, lEyeX)
        yawRaw == Div(Sub(Num(noseTip.x), lEyeX), Add(eyeW, Q(1, 1000)))
        yaw   == MathRound(Mul(yawRaw, Num(60)))
        dy == pts[45].y - pts[36].y
        dx == pts[45].x - pts[36].x
        roll == Num(RollDegrees(dy, dx))
        normalized == MathMin(Num(1), Div(Add(MathAbs(pitch), MathAbs(yaw)), Num(60)))
    IN  [pitch |-> pitch, yaw |-> yaw, roll |-> roll, normalized |-> normalized]


_headPose(pts, faceSize) ==
    LET eyeMidY  == Q(pts[36].y + pts[45].y, 2)
        noseTip  == pts[30]
        mouthMid == Q(pts[48].y + pts[54].y, 2)
        faceH    == Sub(mouthMid, eyeMidY)
        pitchRaw == Mul(Sub(Div(Sub(Num(noseTip.y), eyeMidY), Add(faceH, Q(1, 1000))),
                            Q(45, 100)), Num(2))
        pitch    == MathRound(Mul(pitchRaw, Num(35)))
        lEyeX == Q(pts[36].x + pts[39].x, 2)
        rEyeX == Q(pts[42].x + pts[45].x, 2)
        eyeW  == Sub(rEyeX, lEyeX)
        yawRaw == Sub(Div(Sub(Num(noseTip.x), lEyeX), Add(eyeW, Q(1, 1000))), Q(5, 10))
        yaw   == MathRound(Mul(yawRaw, Num(60)))
        dy == pts[45].y - pts[36].y
        dx == pts[45].x - pts[36].x
        roll == Num(RollDegrees(dy, dx))
        normalized == MathMin(Num(1), Div(Add(MathAbs(pitch), MathAbs(yaw)), Num(60)))
    IN  [pitch |-> pitch, yaw |-> yaw, roll |-> roll, normalized |-> normalized]

(* ------------------------------------------------------------------ *)
(* Utilities                                                            *)
(* ------------------------------------------------------------------ *)


\* a band table with closed tops: a score of exactly 20, 40, 60 or 80 falls in
\* the band below
_levelClosedTop(score) ==
    IF Le(score, Num(20)) THEN [label |-> "CALM", cls |-> "calm", color |-> "#00ff99"]
    ELSE IF Le(score, Num(40)) THEN [label |-> "MILD", cls |-> "mild", color |-> "#00e5ff"]
    ELSE IF Le(score, Num(60)) THEN [label |-> "MODERATE", cls |-> "moderate", color |-> "#ffaa00"]
    ELSE IF Le(score, Num(80)) THEN [label |-> "HIGH", cls |-> "high", color |-> "#ff3b3b"]
    ELSE [label |-> "EXTREME", cls |-> "extreme", color |-> "#ff0055"]

\* every comparison with NaN is false, so a NaN score falls through to EXTREME
_level(score) ==
    IF Lt(score, Num(20)) THEN [label |-> "CALM", cls |-> "calm", color |-> "#00ff99"]
    ELSE IF Lt(score, Num(40)) THEN [label |-> "MILD", cls |-> "mild", color |-> "#00e5ff"]
    ELSE IF Lt(score, Num(60)) THEN [label |-> "MODERATE", cls |-> "moderate", color |-> "#ffaa00"]
    ELSE IF Lt(score, Num(80)) THEN [label |-> "HIGH", cls |-> "high", color |-> "#ff3b3b"]
    ELSE [label |-> "EXTREME", cls |-> "extreme", color |-> "#ff0055"]

\* Math.max(...scores), from -Infinity
RECURSIVE MaxSeq(_)
MaxSeq(q) ==
    IF Len(q) = 0 THEN NegInf
    ELSE IF Len(q) = 1 THEN q[1]
    ELSE MathMax(MaxSeq(SubSeq(q, 1, Len(q) \div 2)),
                 MaxSeq(SubSeq(q, Len(q) \div 2 + 1, Len(q))))

\* Math.min(...scores), from +Infinity
RECURSIVE MinSeq(_)
MinSeq(q) ==
    IF Len(q) = 0 THEN PosInf
    ELSE IF Len(q) = 1 THEN q[1]
    ELSE MathMin(MinSeq(SubSeq(q, 1, Len(q) \div 2)),
                 MinSeq(SubSeq(q, Len(q) \div 2 + 1, Len(q))))


\* a getSessionStats computed from the recent history, which holds 120 scores
\* at most
getSessionStatsOfHistory(st) ==
    IF Len(st.history) = 0 THEN Null
    ELSE Some([ avg   |-> MathRound(Div(SumSeq(st.history), Num(Len(st.history)))),
                peak  |-> MaxSeq(st.history),
                min   |-> MinSeq(st.history),
                calm  |-> Len(SelectSeq(st.history, LAMBDA x : Lt(x, Num(20)))),
                high  |-> Len(SelectSeq(st.history, LAMBDA x : Ge(x, Num(60)))),
                total |-> Len(st.history) ])

\* a getSessionStats that answers only from the second score on
getSessionStatsFromTwo(st) ==
    IF Len(st.sessionScores) <= 1 THEN Null
    ELSE Some([ avg   |-> MathRound(Div(SumSeq(st.sessionScores), Num(Len(st.sessionScores)))),
                peak  |-> MaxSeq(st.sessionScores),
                min   |-> MinSeq(st.sessionScores),
                calm  |-> Len(SelectSeq(st.sessionScores, LAMBDA x : Lt(x, Num(20)))),
                high  |-> Len(SelectSeq(st.sessionScores, LAMBDA x : Ge(x, Num(60)))),
                total |-> Len(st.sessionScores) ])

\* if (!this.sessionScores.length) return null; otherwise the six statistics
getSessionStats(st) ==
    IF Len(st.sessionScores) = 0 THEN Null
    ELSE LET scores == st.sessionScores
         IN  Some([ avg   |-> MathRound(Div(SumSeq(scores), Num(Len(scores)))),
                    peak  |-> MaxSeq(scores),
                    min   |-> MinSeq(scores),
                    calm  |-> Len(SelectSeq(scores, LAMBDA x : Lt(x, Num(20)))),
                    high  |-> Len(SelectSeq(scores, LAMBDA x : Ge(x, Num(60)))),
                    total |-> Len(scores) ])

\* a getSessionStats that takes the scores out of the list as it reads them
AfterGetSessionStatsConsuming(st) ==
    [st EXCEPT !.sessionScores = IF Len(@) > 0 THEN Tail(@) ELSE @]

\* the analyzer after getSessionStats(): the method assigns no field
AfterGetSessionStats(st) == st

\* a reset that forgets the session score list
resetKeepingScores(st) ==
    [st EXCEPT !.history = <<>>,
               !.blinkTimestamps = <<>>,
               !.prevNose = Null,
               !.headMovBuf = <<>>,
               !.eyeWasClosed = FALSE,
               !.frameCount = 0,
               !.totalFrames = 0]

\* a reset that forgets the eye-closed latch
resetKeepingLatch(st) ==
    [st EXCEPT !.history = <<>>,
               !.sessionScores = <<>>,
               !.blinkTimestamps = <<>>,
               !.prevNose = Null,
               !.headMovBuf = <<>>,
               !.frameCount = 0,
               !.totalFrames = 0]

\* blinkCount, blinkWindowStart and prevPose are not touched
reset(st) ==
    [st EXCEPT !.history = <<>>,
               !.sessionScores = <<>>,
               !.blinkTimestamps = <<>>,
               !.prevNose = Null,
               !.headMovBuf = <<>>,
               !.eyeWasClosed = FALSE,
               !.frameCount = 0,
               !.totalFrames = 0]

(* ------------------------------------------------------------------ *)
(* analyze                                                              *)
(* ------------------------------------------------------------------ *)

\* box.width || 200: a zero width falls back to 200
FaceSize(box) == IF box.width = 0 THEN DefaultFaceSize ELSE box.width

\* the eight readings of one frame; focusScore is derived from three of them
MetricsOf(eyeOpenness, browTension, mouthTension, asymmetry, headMovement, blinkRate, headPose) ==
    [ eyeOpenness  |-> eyeOpenness,
      browTension  |-> browTension,
      mouthTension |-> mouthTension,
      asymmetry    |-> asymmetry,
      headMovement |-> headMovement,
      blinkRate    |-> blinkRate,
      focusScore   |-> _focusScore(eyeOpenness, browTension, headMovement),
      headPose     |-> headPose ]


\* readings whose head pose is blended with the pose remembered from the
\* previous frame
MetricsWithPoseBlend(st, pts, faceSize, now, eyeOpenness) ==
    MetricsOf(eyeOpenness,
              _browTension(pts, faceSize),
              _mouthTension(pts, faceSize),
              _asymmetry(pts, faceSize),
              _headMovement(st, pts, faceSize),
              _blinkRate(st, eyeOpenness.ear, now),
              [_headPose(pts, faceSize) EXCEPT
                   !.pitch = MathRound(Div(Add(@, st.prevPose.pitch), Num(2)))])

\* the readings of a frame of face size faceSize, given its eye reading
MetricsWith(st, pts, faceSize, now, eyeOpenness) ==
    MetricsOf(eyeOpenness,
              _browTension(pts, faceSize),
              _mouthTension(pts, faceSize),
              _asymmetry(pts, faceSize),
              _headMovement(st, pts, faceSize),
              _blinkRate(st, eyeOpenness.ear, now),
              _headPose(pts, faceSize))

\* the eight readings analyze computes for a frame
Metrics(st, frame, now) ==
    MetricsWith(st, frame.positions, FaceSize(frame.box), now,
                _eyeOpenness(frame.positions, FaceSize(frame.box)))


\* a composite whose brow weight is 30, so that the weights sum to 105
RawStressHeavyBrow(m) ==
    Add(Add(Add(Add(Add(Add(
        Mul(Sub(Num(1), m.eyeOpenness.normalized), Num(20)),
        Mul(m.browTension.normalized, Num(30))),
        Mul(m.mouthTension.normalized, Num(18))),
        Mul(m.asymmetry.normalized, Num(12))),
        Mul(m.headMovement.normalized, Num(10))),
        Mul(m.blinkRate.normalized, Num(10))),
        Mul(Sub(Num(1), m.focusScore.normalized), Num(5)))

\* a composite whose eye term is not inverted
RawStressEyeDirect(m) ==
    Add(Add(Add(Add(Add(Add(
        Mul(m.eyeOpenness.normalized, Num(20)),
        Mul(m.browTension.normalized, Num(25))),
        Mul(m.mouthTension.normalized, Num(18))),
        Mul(m.asymmetry.normalized, Num(12))),
        Mul(m.headMovement.normalized, Num(10))),
        Mul(m.blinkRate.normalized, Num(10))),
        Mul(Sub(Num(1), m.focusScore.normalized), Num(5)))

\* the weighted stress composite
RawStress(m) ==
    Add(Add(Add(Add(Add(Add(
        Mul(Sub(Num(1), m.eyeOpenness.normalized), Num(20)),
        Mul(m.browTension.normalized, Num(25))),
        Mul(m.mouthTension.normalized, Num(18))),
        Mul(m.asymmetry.normalized, Num(12))),
        Mul(m.headMovement.normalized, Num(10))),
        Mul(m.blinkRate.normalized, Num(10))),
        Mul(Sub(Num(1), m.focusScore.normalized), Num(5)))

\* Math.min(100, Math.max(0, Math.round(raw)))
StressOf(m) == MathMin(Num(100), MathMax(Num(0), MathRound(RawStress(m))))

\* a history that shifts as soon as it holds MAX_HISTORY scores
PushHistoryEarly(history, stress) ==
    IF Len(history) + 1 >= 120 THEN Tail(Append(history, stress)) ELSE Append(history, stress)

\* a session list that evicts like the recent history
PushSessionCapped(scores, stress) ==
    IF Len(scores) + 1 > 120 THEN Tail(Append(scores, stress)) ELSE Append(scores, stress)

\* history.push(stress), then history.shift() once longer than MAX_HISTORY
PushHistory(history, stress) == PushCapped(history, stress, MAX_HISTORY)

\* sessionScores.push(stress)
PushSession(scores, stress) == Append(scores, stress)

\* the rest of analyze once the readings m are computed: the analyzer
\* afterwards (st) and the value returned (out); out.history is the analyzer's
\* own array
Complete(st, frame, now, m) ==
    LET stress == StressOf(m)
        s1 == [st EXCEPT !.frameCount = @ + 1, !.totalFrames = @ + 1]
        s2 == HeadMovementState(s1, frame.positions, FaceSize(frame.box))
        s3 == BlinkRateState(s2, m.eyeOpenness.ear, now)
        s4 == [s3 EXCEPT !.prevPose = [pitch |-> m.headPose.pitch,
                                        yaw   |-> m.headPose.yaw,
                                        roll  |-> m.headPose.roll]]
        history == PushHistory(st.history, stress)
    IN  [ st  |-> [s4 EXCEPT !.history = history,
                             !.sessionScores = PushSession(@, stress)],
          out |-> [ stress  |-> stress,
                    level   |-> _level(stress),
                    metrics |-> m,
                    history |-> history ] ]

\* one call analyze(landmarks, box) at clock reading now
analyze(st, frame, now) == Complete(st, frame, now, Metrics(st, frame, now))

(* ------------------------------------------------------------------ *)
(* SessionManager                                                       *)
(* ------------------------------------------------------------------ *)

\* x || 0 for a number x: NaN and 0 are falsy
OrZero(x) == IF IsNaN(x) THEN Num(0) ELSE x

\* the object startSession() makes; avgStress and dominantEmotion are set
\* by endSession only
NewSession(now) ==
    [ id              |-> now,
      endTime         |-> Null,
      duration        |-> 0,
      frames          |-> <<>>,
      emotionTotals   |-> <<>>,
      peakStress      |-> Num(0),
      minStress       |-> Num(100),
      alerts          |-> 0,
      avgStress       |-> Null,
      dominantEmotion |-> Null ]

\* startSession(): the new session replaces whatever currentSession held
startSession(sm, now) == [sm EXCEPT !.currentSession = Some(NewSession(now))]

\* emotion?.dominant || 'neutral'
DominantOf(emotion) ==
    IF emotion = Null \/ emotion[1].dominant = "" THEN "neutral" ELSE emotion[1].dominant

\* the frame recordFrame builds; metrics may be absent
FrameOf(session, stress, emotion, metrics, now) ==
    [ t       |-> now - session.id,
      stress  |-> stress,
      emotion |-> DominantOf(emotion),
      focus   |-> IF metrics = Null THEN Num(0)
                  ELSE MathRound(Mul(OrZero(metrics[1].focusScore.normalized), Num(100))),
      pitch   |-> IF metrics = Null THEN Num(0) ELSE OrZero(metrics[1].headPose.pitch),
      yaw     |-> IF metrics = Null THEN Num(0) ELSE OrZero(metrics[1].headPose.yaw),
      roll    |-> IF metrics = Null THEN Num(0) ELSE OrZero(metrics[1].headPose.roll),
      blink   |-> IF metrics = Null THEN 0 ELSE metrics[1].blinkRate.bpm ]

\* a tally that counts an emotion only the first time it is seen
TallyOnce(totals, e) ==
    IF \E i \in DOMAIN totals : totals[i][1] = e
    THEN totals
    ELSE Append(totals, <<e, 1>>)

\* emotionTotals[e] = (emotionTotals[e] || 0) + 1; the tallies are kept as
\* <<emotion, count>> pairs in the order the keys were first set
Tally(totals, e) ==
    IF \E i \in DOMAIN totals : totals[i][1] = e
    THEN [i \in DOMAIN totals |->
             IF totals[i][1] = e THEN <<e, totals[i][2] + 1>> ELSE totals[i]]
    ELSE Append(totals, <<e, 1>>)

\* the session after recordFrame has added a frame to it
WithFrame(session, frame) ==
    [session EXCEPT
        !.frames        = Append(@, frame),
        !.peakStress    = IF Gt(frame.stress, @) THEN frame.stress ELSE @,
        !.minStress     = IF Lt(frame.stress, @) THEN frame.stress ELSE @,
        !.emotionTotals = Tally(@, frame.emotion)]

\* recordFrame(stress, emotion, metrics): nothing without a current session
recordFrame(sm, stress, emotion, metrics, now) ==
    IF sm.currentSession = Null THEN sm
    ELSE [sm EXCEPT !.currentSession =
             Some(WithFrame(sm.currentSession[1],
                            FrameOf(sm.currentSession[1], stress, emotion, metrics, now)))]

\* recordAlert()
recordAlert(sm) ==
    IF sm.currentSession = Null THEN sm
    ELSE [sm EXCEPT !.currentSession = Some([@[1] EXCEPT !.alerts = @ + 1])]

\* the stress scores of a list of frames
StressOfFrames(frames) == [i \in DOMAIN frames |-> frames[i].stress]

\* avgStress as endSession sets it: the analyzer's average when stats are
\* passed, else the rounded mean of the recorded frames, 0 without frames
AvgStressOf(session, analyzerStats) ==
    IF analyzerStats # Null THEN analyzerStats[1].avg
    ELSE IF Len(session.frames) > 0
         THEN MathRound(Div(SumSeq(StressOfFrames(session.frames)),
                            Num(Len(session.frames))))
         ELSE Num(0)

\* Object.keys(totals).reduce((a, b) => totals[a] > totals[b] ? a : b) over
\* the first k keys: the index of the key kept
RECURSIVE DominantIndex(_, _)
DominantIndex(totals, k) ==
    IF k = 1 THEN 1
    ELSE IF totals[DominantIndex(totals, k - 1)][2] > totals[k][2]
         THEN DominantIndex(totals, k - 1) ELSE k

DominantEmotionOf(totals) ==
    IF Len(totals) = 0 THEN "neutral" ELSE totals[DominantIndex(totals, Len(totals))][1]

\* the current session as endSession completes it
Completed(session, analyzerStats, now) ==
    [session EXCEPT !.endTime         = Some(now),
                    !.duration        = now - session.id,
                    !.avgStress       = Some(AvgStressOf(session, analyzerStats)),
                    !.dominantEmotion = Some(DominantEmotionOf(session.emotionTotals))]

\* a list that keeps a 21st session
KeepLastUncapped(list) == list

\* if (this.sessions.length > 20) this.sessions.pop()
KeepLast(list) == IF Len(list) > 20 THEN SubSeq(list, 1, Len(list) - 1) ELSE list

\* an endSession that leaves the session current after saving it
endSessionKeepingCurrent(sm, analyzerStats, now) ==
    IF sm.currentSession = Null THEN sm
    ELSE [sm EXCEPT !.sessions = KeepLast(<<Completed(sm.currentSession[1], analyzerStats, now)>> \o @)]

\* endSession(analyzerStats): the SessionManager afterwards
endSession(sm, analyzerStats, now) ==
    IF sm.currentSession = Null THEN sm
    ELSE [currentSession |-> Null,
          sessions |-> KeepLast(<<Completed(sm.currentSession[1], analyzerStats, now)>>
                                \o sm.sessions)]

\* what endSession returns: the completed session, or null
endSessionResult(sm, analyzerStats, now) ==
    IF sm.currentSession = Null THEN Null
    ELSE Some(Completed(sm.currentSession[1], analyzerStats, now))

\* deleteSession(id)
deleteSession(sm, id) ==
    [sm EXCEPT !.sessions = SelectSeq(@, LAMBDA s : s.id # id)]

\* clearAll()
clearAll(sm) == [sm EXCEPT !.sessions = <<>>]

\* the header row of exportCSV
CsvHeader ==
    <<"time_ms", "stress", "emotion", "focus", "pitch", "yaw", "roll", "blink_rate">>

\* a row with the stress and focus fields swapped
CsvRowFocusFirst(f) == <<f.t, f.focus, f.emotion, f.stress, f.pitch, f.yaw, f.roll, f.blink>>

\* the row of a frame; join(',') puts a comma between the fields, none of
\* which holds one
CsvRow(f) == <<f.t, f.stress, f.emotion, f.focus, f.pitch, f.yaw, f.roll, f.blink>>

\* exportCSV() without a session id: the rows of the newest stored session
\* handed to _download, or nothing without a stored session
exportCSV(sm, downloaded) ==
    IF Len(sm.sessions) = 0 THEN downloaded
    ELSE Some([name |-> sm.sessions[1].id,
               rows |-> <<CsvHeader>> \o [i \in DOMAIN sm.sessions[1].frames |->
                                             CsvRow(sm.sessions[1].frames[i])]])

(* ------------------------------------------------------------------ *)
(* Frames: 68-point landmark sets on an integer pixel grid             *)
(* ------------------------------------------------------------------ *)

Pt(x, y) == [x |-> x, y |-> y]

\* A face 400 px wide.  e = <<aL, bL, aR, bR>> are the half-openings of the
\* lids (EAR of an eye = (a + b) / 100), g the brow-to-eye gap, m the mouth's
\* half-height, <<s, v>> the offset of the nose tip from its centred place.
Landmarks(e, g, m, s, v) ==
    [i \in 0..67 |->
        CASE i \in {18, 19, 20} -> Pt(110 + 20 * (i - 18), 200 - g)
          [] i \in {23, 24, 25} -> Pt(270 + 20 * (i - 23), 200 - g)
          [] i = 30 -> Pt(210 + s, 254 + v)
          [] i = 36 -> Pt(100, 200)
          [] i = 37 -> Pt(130, 200 - e[1])
          [] i = 38 -> Pt(170, 200 - e[2])
          [] i = 39 -> Pt(200, 200)
          [] i = 40 -> Pt(170, 200 + e[2])
          [] i = 41 -> Pt(130, 200 + e[1])
          [] i = 42 -> Pt(220, 200)
          [] i = 43 -> Pt(250, 200 - e[3])
          [] i = 44 -> Pt(290, 200 - e[4])
          [] i = 45 -> Pt(320, 200)
          [] i = 46 -> Pt(290, 200 + e[4])
          [] i = 47 -> Pt(250, 200 + e[3])
          [] i = 48 -> Pt(160, 320)
          [] i = 51 -> Pt(210, 320 - m)
          [] i = 54 -> Pt(260, 320)
          [] i = 57 -> Pt(210, 320 + m)
          [] OTHER -> Pt(210, 254)]

Box(width) == [x |-> 10, y |-> 60, width |-> width, height |-> width]

Frame(pts, width) == [positions |-> pts, box |-> Box(width)]

\* wide-open eyes, relaxed brows, closed mouth, centred nose
CalmFrame == Frame(Landmarks(<<20, 20, 20, 20>>, 72, 0, 0, 0), 400)

\* nearly closed eyes (EAR 0.10), lowered brows, open mouth, nose off centre
TenseFrame == Frame(Landmarks(<<5, 5, 5, 5>>, 18, 20, 3, 4), 400)

\* mean EAR 0.205, just under the blink threshold
LowEarFrame == Frame(Landmarks(<<10, 11, 10, 10>>, 72, 0, 0, 0), 400)

\* mean EAR 0.21, exactly the blink threshold
HighEarFrame == Frame(Landmarks(<<10, 11, 10, 11>>, 72, 0, 0, 0), 400)

\* degenerate geometry: the six landmarks of the left eye coincide (EAR = 0/0)
CollapsedEyeFrame ==
    Frame([i \in 0..67 |-> IF i \in 36..41 THEN Pt(150, 200)
                           ELSE Landmarks(<<20, 20, 20, 20>>, 72, 0, 0, 0)[i]], 400)

\* degenerate geometry: the two corners of the left eye coincide, the lids do
\* not (EAR = 80/0); the box has no width
CollapsedCornersFrame ==
    Frame([i \in 0..67 |-> IF i \in {36, 39} THEN Pt(150, 200)
                           ELSE Landmarks(<<20, 20, 20, 20>>, 72, 0, 0, 0)[i]], 0)

\* the frames a live camera delivers
CameraFrames ==
    {CalmFrame, TenseFrame, LowEarFrame, HighEarFrame, CollapsedEyeFrame,
     CollapsedCornersFrame}

\* the frames of the recorded videos: the nose sits 4 px off the midline
ClosedOffFrame == Frame(Landmarks(<<5, 5, 5, 5>>, 72, 0, 4, 0), 400)
OpenOffFrame   == Frame(Landmarks(<<20, 20, 20, 20>>, 72, 0, 4, 0), 400)
LowEarOffFrame  == Frame(Landmarks(<<10, 11, 10, 10>>, 72, 0, 4, 0), 400)
HighEarOffFrame == Frame(Landmarks(<<10, 11, 10, 11>>, 72, 0, 4, 0), 400)
NodUpFrame   == Frame(Landmarks(<<5, 5, 5, 5>>, 9, 0, 0, 0), 400)
NodDownFrame == Frame(Landmarks(<<5, 5, 5, 5>>, 9, 0, 0, 20), 400)

\* eyes wide open, brows relaxed, mouth open in speech, nose centred
TalkFrame == Frame(Landmarks(<<20, 20, 20, 20>>, 72, 20, 0, 0), 400)

\* a yawn on a face 500 px wide: mean EAR 0.205 or 0.10, brows lowered to
\* browTension.normalized = 0.8 exactly (gap 18 = 0.2 * 0.18 * 500), mouth wide
\* open, nose centred and still
YawnFrame     == Frame(Landmarks(<<10, 11, 10, 10>>, 18, 20, 0, 0), 500)
YawnShutFrame == Frame(Landmarks(<<5, 5, 5, 5>>, 18, 20, 0, 0), 500)

Videos == {"blinking", "nodding", "yawning", "talking"}

\* a recorded video played at two frames a second
FastVideos == {"fluttering"}

\* the offset of the nose tip in frame k of the fluttering video: the head
\* wanders over five places, by 5, 12, 5, 20 and 0 px from frame to frame
FlutterNose(k) ==
    CASE k % 5 = 1 -> <<0, 0>>
      [] k % 5 = 2 -> <<3, 4>>
      [] k % 5 = 3 -> <<3, 16>>
      [] k % 5 = 4 -> <<0, 20>>
      [] OTHER     -> <<0, 0>>

\* frame k of the fluttering video: the lids shut on the odd frames and open
\* on the even ones while the head wanders
FlutterFrameAt(k) ==
    Frame(Landmarks(IF k % 2 = 1 THEN <<5, 5, 5, 5>> ELSE <<20, 20, 20, 20>>,
                    72, 0, FlutterNose(k)[1], FlutterNose(k)[2]), 400)

\* frame k (from 1) of a recorded video: one blink every two frames, or
\* closed eyes under lowered brows with the head nodding, or a long yawn
\* with the eyes nearly shut, or relaxed talk with a grimace every third frame
VideoFrameAt(v, k) ==
    IF v = "fluttering" THEN FlutterFrameAt(k)
    ELSE IF v = "blinking" THEN (IF k % 2 = 1 THEN ClosedOffFrame ELSE OpenOffFrame)
    ELSE IF v = "nodding" THEN (IF k % 2 = 1 THEN NodUpFrame ELSE NodDownFrame)
    ELSE IF v = "yawning" THEN (IF k % 3 = 0 THEN YawnShutFrame ELSE YawnFrame)
    ELSE (IF k % 3 = 1 THEN TalkFrame ELSE IF k % 3 = 2 THEN CalmFrame ELSE NodUpFrame)

AllFrames ==
    CameraFrames \cup {ClosedOffFrame, OpenOffFrame, LowEarOffFrame, HighEarOffFrame,
                       NodUpFrame, NodDownFrame, YawnFrame, YawnShutFrame, TalkFrame}

(* ------------------------------------------------------------------ *)
(* Bounds                                                               *)
(* ------------------------------------------------------------------ *)

\* frames analysed per session from the live camera
MaxFrames == 3

\* the clock stops here (ms)
MaxClock == 60000

\* frames of a recorded video
MaxVideoFrames == 125

\* the clock of a recorded-video run stops here (ms)
MaxVideoClock == 260000

\* frames of the short recorded videos
ShortVideoFrames == 12

\* the clock of a run of a short recorded video stops here (ms)
MaxShortVideoClock == 30000

\* time a recorded video's frame takes (ms)
FramePeriodMs == 1000

\* time a frame of a fast video takes (ms)
FastPeriodMs == 500

\* the clock of a run of a fast video stops here (ms)
MaxFastClock == 70000

\* the time that can pass between two calls of analyze() on the camera (ms)
TickSteps == {0, 30000, 60000}

\* the normalized values the composite is scored on: k / GridSteps, k = 0..GridSteps
GridSteps == 2

GridValues == {Q(k, GridSteps) : k \in 0..GridSteps}

\* the longest score list drawDistribution is tried on
MaxScores == 3

\* the scores of those lists
SampleScores == {0, 9, 10, 55, 95, 100}

\* detection loops the application is let to run at once
MaxLoops == 2

\* the clock of an application run stops here (ms)
MaxAppClock == 3000

\* no session is started once so many were stored since the page was loaded
MaxSaved == 2

\* frames recorded in a session by direct calls of recordFrame
MaxSessionFrames == 2

\* alerts recorded in a session by direct calls of recordAlert
MaxSessionAlerts == 1

\* the clock of a run of SessionManager calls stops here (ms)
MaxSessionClock == 3500

\* how many sessions localStorage holds when the page is loaded
StoredCounts == {0, 19, 20}

\* the frames with a face of a run
MaxRunFrames == 5

\* the scores the gauge is drawn for: 0..MaxGaugeScore
MaxGaugeScore == 100

\* the faces the detector finds for the application: a calm one, a tense
\* one, and one whose left-eye landmarks coincide
AppFrames == {CalmFrame, TenseFrame, CollapsedEyeFrame}

\* the score lists of 1 to MaxScores sample scores
ScoreLists ==
    UNION {[1..n -> {Num(s) : s \in SampleScores}] : n \in 1..MaxScores}

(* ------------------------------------------------------------------ *)
(* State                                                                *)
(* ------------------------------------------------------------------ *)

VARIABLES
    an,        \* the StressAnalyzer instance
    clock,     \* Date.now() as the last analyze() read it
    result,    \* what the last analyze() of this session returned, or Null
    stats,     \* what getSessionStats() returned, when it was the last call
    lastOp,    \* the last method called on the analyzer
    blinkLog,  \* every timestamp pushed to blinkTimestamps since the last reset
    twin,      \* a StressAnalyzer constructed at the last reset, fed the same frames
    video,     \* what feeds analyze(): the live camera or a recorded video
    closedRun, \* every frame analysed since the last reset had a mean EAR below 0.21
    running,   \* main.js state.running
    rafPending,\* detectionLoop callbacks requested and not yet run
    detecting, \* the frames whose face detection detectionLoop is awaiting
    allStress, \* main.js state.allStress
    dist,      \* what drawDistribution last drew: the scores and their buckets
    sessions,  \* main.js sessions, the SessionManager: currentSession and sessions
    download,  \* the file last handed to SessionManager._download, or Null
    sess,      \* what sessions.endSession last returned
    starting,  \* startCamera calls that await the camera
    alertCount,      \* main.js state.alertCount
    lastAlertTime,   \* main.js lastAlertTime
    audio,           \* main.js audio, the AudioAlert: enabled and lastAlert
    breathing,       \* main.js breathing, the BreathingGuide: active
    breathingActive, \* main.js state.breathingActive
    breathAutoMode,  \* main.js state.breathAutoMode
    breathCooldown,  \* main.js breathCooldown
    status,          \* what setStatus last set: the status indicator
    gauge,           \* what renderer.drawGauge last drew: the score and its colour
    summary,         \* the session summary of the Analytics tab: sumAvg and sumPeak
    peakStress       \* main.js state.peakStress

\* the analyzer and what is observed of it
analyzerVars == <<an, clock, result, stats, lastOp, blinkLog, twin, closedRun>>

\* the application around it
appVars == <<running, rafPending, detecting, allStress, dist>>

\* the session record, the alerts and the breathing guide
\* what is shown of a frame
uiVars == <<status, gauge, summary, peakStress>>

sideVars == <<sessions, download, sess, starting, alertCount, lastAlertTime, audio,
              breathing, breathingActive, breathAutoMode, breathCooldown, uiVars>>

vars == <<an, clock, result, stats, lastOp, blinkLog, twin, video, closedRun,
          running, rafPending, detecting, allStress, dist,
          sessions, download, sess, starting, alertCount, lastAlertTime, audio,
          breathing, breathingActive, breathAutoMode, breathCooldown,
          status, gauge, summary, peakStress>>

InitAnalyzer ==
    /\ an = NewAnalyzer(0)
    /\ clock = 0
    /\ result = Null
    /\ stats = Null
    /\ lastOp = "constructor"
    /\ blinkLog = <<>>
    /\ twin = [an |-> NewAnalyzer(0), result |-> Null]
    /\ closedRun = TRUE

\* no alert given, the guide idle in auto mode, nothing exported
InitSide ==
    /\ download = Null
    /\ sess = Null
    /\ starting = 0
    /\ alertCount = 0
    /\ lastAlertTime = 0
    /\ audio = [enabled |-> TRUE, lastAlert |-> 0]
    /\ breathing = [active |-> FALSE]
    /\ breathingActive = FALSE
    /\ breathAutoMode = TRUE
    /\ breathCooldown = 0

\* the page once the models are loaded, or with a camera running: nothing
\* drawn yet
InitUi(s) ==
    /\ status = s
    /\ gauge = Null
    /\ summary = Null
    /\ peakStress = Num(0)

\* main.js as loaded: no camera, no detection loop, no score, no session in
\* localStorage
InitApp ==
    /\ running = FALSE
    /\ rafPending = 0
    /\ detecting = <<>>
    /\ allStress = <<>>
    /\ dist = Null
    /\ sessions = [currentSession |-> Null, sessions |-> <<>>]
    /\ InitSide
    /\ InitUi("ready")

Init == InitAnalyzer /\ InitApp /\ video = "camera"

InitVideo == InitAnalyzer /\ InitApp /\ video \in Videos

\* how many entries of a timestamp list equal t
CountOf(ts, t) == Len(SelectSeq(ts, LAMBDA u : u = t))

\* analyzer.analyze(landmarks, box), dt ms after the previous analyze()
DoAnalyze(frame, dt) ==
    \E r \in {analyze(an, frame, clock + dt)}, t \in {analyze(twin.an, frame, clock + dt)} :
        /\ clock' = clock + dt
        /\ an' = r.st
        /\ result' = Some(r.out)
        /\ stats' = Null
        /\ lastOp' = "analyze"
        /\ blinkLog' = IF CountOf(r.st.blinkTimestamps, clock + dt)
                              > CountOf(an.blinkTimestamps, clock + dt)
                       THEN Append(blinkLog, clock + dt) ELSE blinkLog
        /\ twin' = [an |-> t.st, result |-> Some(t.out)]
        /\ closedRun' = (closedRun /\ Lt(r.out.metrics.eyeOpenness.ear, Q(21, 100)))
        /\ UNCHANGED video

\* a frame of the live camera is analysed
CallAnalyze ==
    /\ video = "camera"
    /\ an.totalFrames < MaxFrames
    /\ \E frame \in CameraFrames, dt \in TickSteps :
          clock + dt <= MaxClock /\ DoAnalyze(frame, dt)
    /\ UNCHANGED <<appVars, sideVars>>

\* analyzer.reset()
DoReset ==
    /\ an' = reset(an)
    /\ result' = Null
    /\ stats' = Null
    /\ lastOp' = "reset"
    /\ blinkLog' = <<>>
    /\ twin' = [an |-> NewAnalyzer(clock), result |-> Null]
    /\ closedRun' = TRUE
    /\ UNCHANGED <<clock, video>>

CallReset == video = "camera" /\ DoReset /\ UNCHANGED <<appVars, sideVars>>

\* analyzer.getSessionStats()
CallGetSessionStats ==
    /\ stats' = getSessionStats(an)
    /\ an' = AfterGetSessionStats(an)
    /\ lastOp' = "getSessionStats"
    /\ UNCHANGED <<clock, result, blinkLog, twin, video, closedRun>>
    /\ UNCHANGED <<appVars, sideVars>>

Next == CallAnalyze \/ CallReset \/ CallGetSessionStats

Spec == Init /\ [][Next]_vars

\* the number of frames of a recorded video: the yawn and the talk are short
VideoLength(v) ==
    IF v \in {"yawning", "talking"} THEN ShortVideoFrames ELSE MaxVideoFrames

\* where the clock of a run of a recorded video stops
VideoClock(v) ==
    IF v \in {"yawning", "talking"} THEN MaxShortVideoClock
    ELSE IF v \in FastVideos THEN MaxFastClock
    ELSE MaxVideoClock

\* the time between two frames of a recorded video
FramePeriod(v) == IF v \in FastVideos THEN FastPeriodMs ELSE FramePeriodMs

\* the next frame of the recorded video is detected and analysed
VideoFrame ==
    /\ video \in Videos \cup FastVideos
    /\ an.totalFrames < VideoLength(video)
    /\ clock + FramePeriod(video) <= VideoClock(video)
    /\ DoAnalyze(VideoFrameAt(video, an.totalFrames + 1), FramePeriod(video))
    /\ UNCHANGED <<appVars, sideVars>>

\* the video has ended: the session is closed and the analyzer reset
VideoEnd ==
    /\ video \in Videos \cup FastVideos
    /\ an.totalFrames = VideoLength(video)
    /\ DoReset
    /\ UNCHANGED <<appVars, sideVars>>

NextVideo == VideoFrame \/ VideoEnd \/ CallGetSessionStats

SpecVideo == InitVideo /\ [][NextVideo]_vars

\* a fast video is played
InitFast == InitAnalyzer /\ InitApp /\ video \in FastVideos

SpecFast == InitFast /\ [][NextVideo]_vars

\* the readings of a frame whose seven scored channels read e, b, m, a, h, k
\* and f (raw values and head pose as on the calm face)
ReadingsOf(base, e, b, m, a, h, k, f) ==
    [base EXCEPT !.eyeOpenness.normalized  = e,
                 !.browTension.normalized  = b,
                 !.mouthTension.normalized = m,
                 !.asymmetry.normalized    = a,
                 !.headMovement.normalized = h,
                 !.blinkRate.normalized    = k,
                 !.focusScore.normalized   = f]

\* the composite scorer (the second half of analyze) applied once to readings
\* drawn from the grid, on a newly constructed analyzer
ScoreReadings ==
    /\ video = "readings"
    /\ result = Null
    /\ \E e \in GridValues, b \in GridValues, m \in GridValues, a \in GridValues,
          h \in GridValues, k \in GridValues, f \in GridValues :
          \E r \in {Complete(NewAnalyzer(clock), CalmFrame, clock,
                              ReadingsOf(Metrics(NewAnalyzer(clock), CalmFrame, clock),
                                         e, b, m, a, h, k, f))} :
              /\ result' = Some(r.out)
              /\ lastOp' = "analyze"
    /\ UNCHANGED <<an, clock, stats, blinkLog, twin, video, closedRun>>
    /\ UNCHANGED <<appVars, sideVars>>

InitScore == InitAnalyzer /\ InitApp /\ video = "readings"

NextScore == ScoreReadings

SpecScore == InitScore /\ [][NextScore]_vars

(* ------------------------------------------------------------------ *)
(* CanvasRenderer.drawDistribution                                     *)
(* ------------------------------------------------------------------ *)

\* Math.floor
MathFloor(x) == IF x.d = 0 THEN x ELSE Num(x.n \div x.d)

\* a bucket index without the cap at 9
BucketIndexUncapped(s) == MathFloor(Div(s, Num(10)))

\* Math.min(9, Math.floor(s / 10))
BucketIndex(s) == MathMin(Num(9), MathFloor(Div(s, Num(10))))

\* new Array(10).fill(0), then buckets[index]++ for every score; an index
\* that is none of 0..9 counts in none of the ten
Buckets(scores) ==
    [i \in 0..9 |-> Cardinality({k \in DOMAIN scores : BucketIndex(scores[k]) = Num(i)})]

\* a gauge whose top band starts above 80
_scoreColorClosedTop(score) ==
    IF Lt(score, Num(20)) THEN "#00ff99"
    ELSE IF Lt(score, Num(40)) THEN "#00e5ff"
    ELSE IF Lt(score, Num(60)) THEN "#ffaa00"
    ELSE IF Le(score, Num(80)) THEN "#ff3b3b"
    ELSE "#ff0055"

\* CanvasRenderer._scoreColor(score)
_scoreColor(score) ==
    IF Lt(score, Num(20)) THEN "#00ff99"
    ELSE IF Lt(score, Num(40)) THEN "#00e5ff"
    ELSE IF Lt(score, Num(60)) THEN "#ffaa00"
    ELSE IF Lt(score, Num(80)) THEN "#ff3b3b"
    ELSE "#ff0055"

\* CanvasRenderer.drawGauge(score): the arc is drawn in the colour of the score
drawGauge(score) == Some([score |-> score, color |-> _scoreColor(score)])

\* drawDistribution(scores) on a chart that showed drawn: nothing is redrawn
\* for an empty list (the canvas and its context are present)
drawDistribution(scores, drawn) ==
    IF Len(scores) = 0 THEN drawn
    ELSE Some([scores |-> scores, buckets |-> Buckets(scores)])

(* ------------------------------------------------------------------ *)
(* main.js: camera, detection loop, analytics tab                       *)
(* ------------------------------------------------------------------ *)

\* the analytics tab is opened: drawDistribution(state.allStress)
ShowAnalyticsTab ==
    /\ dist' = drawDistribution(allStress, dist)
    /\ UNCHANGED <<running, rafPending, detecting, allStress>>
    /\ UNCHANGED sideVars
    /\ UNCHANGED <<an, clock, result, stats, lastOp, blinkLog, twin, video, closedRun>>

\* Date.now() when the clock reads t: the page was loaded long after 1970
\* (the analyzer only compares its timestamps with one another and is handed
\* the clock as it is)
LoadTime == 1000000

DateNow(t) == LoadTime + t

\* state.alertThreshold and state.breathThreshold as main.js sets them
alertThreshold == 70

breathThreshold == 70

\* AudioAlert.COOLDOWN
COOLDOWN == 8000

\* an AudioAlert whose cooldown is 2 ms longer
maybeAlertSlow(a, now) ==
    IF ~a.enabled THEN a
    ELSE IF now - a.lastAlert < COOLDOWN + 2 THEN a
    ELSE [a EXCEPT !.lastAlert = now]

\* AudioAlert.maybeAlert(stress): the sound is played and lastAlert set when
\* the alerts are enabled and the cooldown has passed
maybeAlert(a, now) ==
    IF ~a.enabled THEN a
    ELSE IF now - a.lastAlert < COOLDOWN THEN a
    ELSE [a EXCEPT !.lastAlert = now]

\* an alert counted for every frame at or above the threshold
AlertDueEveryFrame(stress, now) == Ge(stress, Num(alertThreshold))

\* whether handleAlerts(stress, level) counts an alert at time now
AlertDue(stress, now) ==
    Ge(stress, Num(alertThreshold)) /\ now - lastAlertTime > 8000

\* handleAlerts(stress, level), but for sessions.recordAlert()
HandleAlerts(stress, now) ==
    IF AlertDue(stress, now)
    THEN /\ lastAlertTime' = now
         /\ alertCount' = alertCount + 1
         /\ audio' = maybeAlert(audio, now)
    ELSE UNCHANGED <<lastAlertTime, alertCount, audio>>

\* a stop() that leaves the guide active
BreathingStopKept(g) == g

\* BreathingGuide.start() and stop()
BreathingStart(g) == [g EXCEPT !.active = TRUE]

BreathingStop(g) == [g EXCEPT !.active = FALSE]

\* a guide started again without a cooldown
BreathStartDueAtOnce(stress, now) ==
    /\ breathAutoMode
    /\ Ge(stress, Num(breathThreshold)) /\ ~breathingActive

\* whether handleBreathing(stress) starts the guide at time now
BreathStartDue(stress, now) ==
    /\ breathAutoMode
    /\ Ge(stress, Num(breathThreshold)) /\ ~breathingActive
    /\ now - breathCooldown > 30000

\* whether handleBreathing(stress) stops the guide
BreathStopDue(stress) ==
    /\ breathAutoMode
    /\ ~(Ge(stress, Num(breathThreshold)) /\ ~breathingActive)
    /\ Lt(stress, Num(breathThreshold - 10)) /\ breathingActive

\* handleBreathing(stress)
HandleBreathing(stress, now) ==
    IF BreathStartDue(stress, now)
    THEN /\ breathing' = BreathingStart(breathing)
         /\ breathingActive' = TRUE
         /\ UNCHANGED breathCooldown
    ELSE IF BreathStopDue(stress)
    THEN /\ breathing' = BreathingStop(breathing)
         /\ breathingActive' = FALSE
         /\ breathCooldown' = now
    ELSE UNCHANGED <<breathing, breathingActive, breathCooldown>>

\* detectionLoop after analyze() on a detected face: sessions.recordFrame,
\* handleAlerts (with sessions.recordAlert), handleBreathing
FrameBookkeeping(stress, emotion, metrics, now) ==
    /\ sessions' = IF AlertDue(stress, now)
                   THEN recordAlert(recordFrame(sessions, stress, emotion, metrics, now))
                   ELSE recordFrame(sessions, stress, emotion, metrics, now)
    /\ HandleAlerts(stress, now)
    /\ HandleBreathing(stress, now)
    /\ UNCHANGED <<download, sess, starting, breathAutoMode>>

\* detectionLoop on a detected face, what it shows: renderer.drawGauge,
\* updateAnalyticsTab (sumAvg, sumPeak), then state.peakStress, and
\* setStatus('live')
FrameDisplay(stress) ==
    /\ gauge' = drawGauge(stress)
    /\ summary' = Some([sumAvg |-> stress, sumPeak |-> peakStress])
    /\ peakStress' = IF Gt(stress, peakStress) THEN stress ELSE peakStress
    /\ status' = "live"

\* detectionLoop when no face was detected: the guide is stopped in auto mode
NoFaceBookkeeping ==
    /\ IF breathingActive /\ breathAutoMode
       THEN breathing' = BreathingStop(breathing) /\ breathingActive' = FALSE
       ELSE UNCHANGED <<breathing, breathingActive>>
    /\ UNCHANGED <<sessions, download, sess, starting, alertCount, lastAlertTime,
                   audio, breathAutoMode, breathCooldown, uiVars>>

\* how many of the stored sessions were started after the page was loaded
SavedSince(sm) == Len(SelectSeq(sm.sessions, LAMBDA s : s.id >= LoadTime))

\* the start button is pressed: startCamera() asks for the camera and awaits
\* it.  The button sits on the camera overlay, which is hidden once a camera
\* runs, and can be pressed again while the camera is awaited.
StartClick ==
    /\ video = "camera"
    /\ ~running
    /\ SavedSince(sessions) < MaxSaved
    /\ starting + rafPending + Len(detecting) < MaxLoops
    /\ starting' = starting + 1
    /\ UNCHANGED <<sessions, download, sess, alertCount, lastAlertTime, audio,
                   breathing, breathingActive, breathAutoMode, breathCooldown, uiVars>>
    /\ UNCHANGED <<analyzerVars, video, appVars>>

\* startCamera() when the camera cannot be had: the error is logged
StartCameraFailed ==
    /\ video = "camera"
    /\ starting > 0
    /\ starting' = starting - 1
    /\ UNCHANGED <<sessions, download, sess, alertCount, lastAlertTime, audio,
                   breathing, breathingActive, breathAutoMode, breathCooldown, uiVars>>
    /\ UNCHANGED <<analyzerVars, video, appVars>>

\* startCamera() once the camera plays: setStatus('live'),
\* sessions.startSession(), analyzer.reset(), state.peakStress = 0,
\* state.alertCount = 0, state.allStress = [],
\* requestAnimationFrame(detectionLoop)
StartCamera ==
    /\ video = "camera"
    /\ starting > 0
    /\ starting' = starting - 1
    /\ running' = TRUE
    /\ sessions' = startSession(sessions, DateNow(clock))
    /\ DoReset
    /\ alertCount' = 0
    /\ allStress' = <<>>
    /\ rafPending' = rafPending + 1
    /\ status' = "live"
    /\ peakStress' = Num(0)
    /\ UNCHANGED <<detecting, dist, gauge, summary>>
    /\ UNCHANGED <<download, sess, lastAlertTime, audio, breathing, breathingActive,
                   breathAutoMode, breathCooldown>>

\* stopCamera(): state.running = false, breathing.stop(), setStatus('ready'),
\* sessions.endSession(analyzer.getSessionStats()), analyzer.reset().  The
\* stop button is enabled while the camera runs.
StopCamera ==
    /\ video \in {"camera", "run"}
    /\ running
    /\ running' = FALSE
    /\ breathing' = BreathingStop(breathing)
    /\ breathingActive' = FALSE
    /\ stats' = getSessionStats(an)
    /\ sessions' = endSession(sessions, getSessionStats(an), DateNow(clock))
    /\ sess' = endSessionResult(sessions, getSessionStats(an), DateNow(clock))
    /\ an' = reset(AfterGetSessionStats(an))
    /\ result' = Null
    /\ lastOp' = "reset"
    /\ blinkLog' = <<>>
    /\ twin' = [an |-> NewAnalyzer(clock), result |-> Null]
    /\ closedRun' = TRUE
    /\ status' = "ready"
    /\ UNCHANGED <<clock, video, rafPending, detecting, allStress, dist>>
    /\ UNCHANGED <<download, starting, alertCount, lastAlertTime, audio,
                   breathAutoMode, breathCooldown, gauge, summary, peakStress>>

\* the expression the detector reports with a face (parseEmotions gives its
\* dominant emotion)
ExpressionOf(frame) ==
    Some([dominant |-> IF frame = CalmFrame THEN "neutral" ELSE "angry"])

\* what an awaited face detection comes back with: a face or none
AppDetections(now) ==
    IF now + (Len(detecting) + 1) * FramePeriodMs <= MaxAppClock
    THEN {Some(f) : f \in AppFrames} \cup {Null}
    ELSE {Null}

\* detectionLoop is called back: it returns at once when the camera does not
\* run, and otherwise starts a face detection and awaits it
LoopEnter ==
    /\ rafPending > 0
    /\ rafPending' = rafPending - 1
    /\ IF running
       THEN \E d \in AppDetections(clock) : detecting' = Append(detecting, d)
       ELSE detecting' = detecting
    /\ UNCHANGED <<running, allStress, dist>>
    /\ UNCHANGED sideVars
    /\ UNCHANGED <<an, clock, result, stats, lastOp, blinkLog, twin, video, closedRun>>

\* q without its i-th element
RemoveAt(q, i) == SubSeq(q, 1, i - 1) \o SubSeq(q, i + 1, Len(q))

\* an awaited detection resolves and detectionLoop goes on: with a face,
\* analyzer.analyze(), sessions.recordFrame, updateAnalyticsTab
\* (drawDistribution(state.allStress)), state.allStress.push(result.stress),
\* handleAlerts, handleBreathing; then requestAnimationFrame again
DetectionDone ==
    \E i \in DOMAIN detecting :
        /\ detecting' = RemoveAt(detecting, i)
        /\ rafPending' = rafPending + 1
        /\ IF detecting[i] # Null
           THEN /\ DoAnalyze(detecting[i][1], FramePeriodMs)
                /\ dist' = drawDistribution(allStress, dist)
                /\ allStress' = Append(allStress, result'[1].stress)
                /\ FrameBookkeeping(result'[1].stress, ExpressionOf(detecting[i][1]),
                                    Some(result'[1].metrics), DateNow(clock'))
                /\ FrameDisplay(result'[1].stress)
           ELSE /\ UNCHANGED <<an, clock, result, stats, lastOp, blinkLog, twin, video,
                               closedRun, allStress, dist>>
                /\ NoFaceBookkeeping
        /\ UNCHANGED running

NextApp ==
    \/ StartClick \/ StartCamera \/ StartCameraFailed \/ StopCamera
    \/ LoopEnter \/ DetectionDone \/ ShowAnalyticsTab

SpecApp == Init /\ [][NextApp]_vars

(* ------------------------------------------------------------------ *)
(* SessionManager called directly                                       *)
(* ------------------------------------------------------------------ *)

\* a session of an earlier visit, started i minutes before the page was
\* loaded and ended five seconds later with no face seen
StoredSession(i) ==
    Completed(NewSession(LoadTime - i * 60000), Null, LoadTime - i * 60000 + 5000)

\* what _load() finds in localStorage: n sessions, the newest first
StoredList(n) == [i \in 1..n |-> StoredSession(i)]

\* the readings recordFrame is called with: a score, the emotion and the
\* metrics (both may be absent)
FrameInputs ==
    { <<Num(0), Null, Null>>,
      <<Num(35), Some([dominant |-> "happy"]),
        Some(analyze(NewAnalyzer(0), CalmFrame, 0).out.metrics)>>,
      <<Num(100), Some([dominant |-> "angry"]),
        Some(analyze(NewAnalyzer(0), TenseFrame, 0).out.metrics)>> }

\* the statistics endSession is called with: none, or the analyzer's
StatsInputs ==
    {Null, Some([avg |-> Num(42), peak |-> Num(100), min |-> Num(0),
                 calm |-> 1, high |-> 1, total |-> 3])}

\* the variables the SessionManager calls leave alone, but for the clock
sessionFrame ==
    <<an, result, stats, lastOp, blinkLog, twin, closedRun, video, appVars,
      download, sess, starting, alertCount, lastAlertTime, audio, breathing,
      breathingActive, breathAutoMode, breathCooldown, uiVars>>

\* the time a call made during a session comes after the call before it: a
\* frame's worth
SessionStep(sm) == IF sm.currentSession = Null THEN 0 ELSE FramePeriodMs

SmStartSession ==
    /\ video = "sessions"
    /\ sessions' = startSession(sessions, DateNow(clock))
    /\ UNCHANGED <<sessionFrame, clock>>

SmRecordFrame ==
    /\ video = "sessions"
    /\ sessions.currentSession # Null
          => Len(sessions.currentSession[1].frames) < MaxSessionFrames
    /\ clock + SessionStep(sessions) <= MaxSessionClock
    /\ clock' = clock + SessionStep(sessions)
    /\ \E in \in FrameInputs :
          sessions' = recordFrame(sessions, in[1], in[2], in[3], DateNow(clock'))
    /\ UNCHANGED sessionFrame

SmRecordAlert ==
    /\ video = "sessions"
    /\ sessions.currentSession # Null
          => sessions.currentSession[1].alerts < MaxSessionAlerts
    /\ sessions' = recordAlert(sessions)
    /\ UNCHANGED <<sessionFrame, clock>>

SmEndSession ==
    /\ video = "sessions"
    /\ clock + SessionStep(sessions) <= MaxSessionClock
    /\ clock' = clock + SessionStep(sessions)
    /\ \E st \in StatsInputs :
          /\ sessions' = endSession(sessions, st, DateNow(clock'))
          /\ sess' = endSessionResult(sessions, st, DateNow(clock'))
    /\ UNCHANGED <<an, result, stats, lastOp, blinkLog, twin, closedRun, video,
                   appVars, download, starting, alertCount, lastAlertTime, audio,
                   breathing, breathingActive, breathAutoMode, breathCooldown, uiVars>>

\* the ids deleteSession is called with: one no session has, those of the
\* sessions saved since the page was loaded, and the oldest of a full list
DeleteInputs(sm) ==
    {0} \cup {sm.sessions[i].id : i \in {j \in DOMAIN sm.sessions : sm.sessions[j].id >= LoadTime}}
        \cup {sm.sessions[i].id : i \in {j \in DOMAIN sm.sessions : j = 20}}

\* the delete button of a session: deleteSession(id)
SmDeleteSession ==
    /\ video = "sessions"
    /\ \E id \in DeleteInputs(sessions) : sessions' = deleteSession(sessions, id)
    /\ UNCHANGED <<sessionFrame, clock>>

SmClearAll ==
    /\ video = "sessions"
    /\ sessions' = clearAll(sessions)
    /\ UNCHANGED <<sessionFrame, clock>>

\* the export button: sessions.exportCSV()
SmExportCSV ==
    /\ video = "sessions"
    /\ download' = exportCSV(sessions, download)
    /\ UNCHANGED <<analyzerVars, video, appVars, sessions, sess, starting, alertCount,
                   lastAlertTime, audio, breathing, breathingActive, breathAutoMode,
                   breathCooldown, uiVars>>

InitSession ==
    /\ InitAnalyzer
    /\ video = "sessions"
    /\ running = FALSE /\ rafPending = 0 /\ detecting = <<>>
    /\ allStress = <<>> /\ dist = Null
    /\ InitSide
    /\ InitUi("ready")
    /\ \E n \in StoredCounts :
          sessions = [currentSession |-> Null, sessions |-> StoredList(n)]

NextSession ==
    \/ SmStartSession \/ SmRecordFrame \/ SmRecordAlert \/ SmEndSession
    \/ SmDeleteSession \/ SmClearAll \/ SmExportCSV

SpecSession == InitSession /\ [][NextSession]_vars

(* ------------------------------------------------------------------ *)
(* main.js: the alerts and the breathing guide over a run of frames     *)
(* ------------------------------------------------------------------ *)

\* the scores the frames of the run are analysed to: below the band under
\* the threshold, the lower end of the band, and the threshold
FrameScores == {59, 60, 70}

\* the time between a frame with a face and the next: the first frame a
\* second into the run, then 8000 ms, 1 ms, 29999 ms and 1 ms, so that the
\* first three frames are 8000 and 8001 ms apart, and the second, fourth and
\* fifth 30000 and 30001 ms
FrameGaps == <<1000, 8000, 1, 29999, 1>>

\* when the k-th frame with a face is analysed
RECURSIVE TimeOfFrame(_)
TimeOfFrame(k) ==
    IF k = 0 THEN 0
    ELSE TimeOfFrame(k - 1) + FrameGaps[((k - 1) % Len(FrameGaps)) + 1]

\* the settings and the guide's switch are used in the run
settingsFrame ==
    <<an, clock, result, stats, lastOp, blinkLog, twin, closedRun, video, appVars,
      sessions, download, sess, starting, alertCount, lastAlertTime, breathCooldown,
      uiVars>>

\* detectionLoop on a frame with a face, from the score analyze() returned:
\* sessions.recordFrame, updateAnalyticsTab, state.allStress.push,
\* handleAlerts, handleBreathing
ScoredFrame ==
    /\ video = "run"
    /\ running
    /\ Len(allStress) < MaxRunFrames
    /\ clock' = TimeOfFrame(Len(allStress) + 1)
    /\ \E s \in FrameScores :
          /\ allStress' = Append(allStress, Num(s))
          /\ FrameBookkeeping(Num(s), Null, Null, DateNow(clock'))
          /\ FrameDisplay(Num(s))
    /\ dist' = drawDistribution(allStress, dist)
    /\ UNCHANGED <<an, result, stats, lastOp, blinkLog, twin, closedRun, video,
                   running, rafPending, detecting>>

\* detectionLoop on a frame without a face
FaceLost ==
    /\ video = "run"
    /\ running
    /\ NoFaceBookkeeping
    /\ UNCHANGED <<analyzerVars, video, appVars>>

\* the sound switch of the settings: audio.setEnabled(checked)
SoundToggle ==
    /\ video = "run"
    /\ \E checked \in BOOLEAN : audio' = [audio EXCEPT !.enabled = checked]
    /\ UNCHANGED <<settingsFrame, breathing, breathingActive, breathAutoMode>>

\* the auto switch of the breathing guide: state.breathAutoMode = checked
BreathingAutoToggle ==
    /\ video = "run"
    /\ \E checked \in BOOLEAN : breathAutoMode' = checked
    /\ UNCHANGED <<settingsFrame, audio, breathing, breathingActive>>

\* the switch of the breathing guide: breathing.toggle(checked) and
\* state.breathingActive = checked
BreathingToggle ==
    /\ video = "run"
    /\ \E checked \in BOOLEAN :
          /\ breathing' = IF checked THEN BreathingStart(breathing)
                                     ELSE BreathingStop(breathing)
          /\ breathingActive' = checked
    /\ UNCHANGED <<settingsFrame, audio, breathAutoMode>>

\* the camera runs and a session has been started with it
InitFrames ==
    /\ InitAnalyzer
    /\ video = "run"
    /\ running = TRUE /\ rafPending = 1 /\ detecting = <<>>
    /\ allStress = <<>> /\ dist = Null
    /\ InitSide
    /\ InitUi("live")
    /\ sessions = startSession([currentSession |-> Null, sessions |-> <<>>], DateNow(0))

NextFrames ==
    \/ ScoredFrame \/ FaceLost \/ SoundToggle \/ BreathingAutoToggle \/ BreathingToggle
    \/ StopCamera

SpecFrames == InitFrames /\ [][NextFrames]_vars

(* ------------------------------------------------------------------ *)
(* The gauge against the level band                                      *)
(* ------------------------------------------------------------------ *)

\* detectionLoop on a frame analysed to the score s: the result carries
\* _level(s), and renderer.drawGauge(result.stress) draws the gauge
GaugeDrawn ==
    /\ video = "gauge"
    /\ \E s \in 0..MaxGaugeScore :
          /\ result' = Some([stress |-> Num(s), level |-> _level(Num(s))])
          /\ gauge' = drawGauge(Num(s))
    /\ lastOp' = "analyze"
    /\ UNCHANGED <<an, clock, stats, blinkLog, twin, closedRun, video, appVars>>
    /\ UNCHANGED <<sessions, download, sess, starting, alertCount, lastAlertTime, audio,
                   breathing, breathingActive, breathAutoMode, breathCooldown,
                   status, summary, peakStress>>

InitGauge == InitAnalyzer /\ InitApp /\ video = "gauge"

NextGauge == GaugeDrawn

SpecGauge == InitGauge /\ [][NextGauge]_vars

\* drawDistribution tried on score lists: state.allStress holds one of the
\* sample lists
InitDist ==
    /\ InitAnalyzer
    /\ video = "scores"
    /\ running = FALSE /\ rafPending = 0 /\ detecting = <<>> /\ dist = Null
    /\ allStress \in ScoreLists
    /\ sessions = [currentSession |-> Null, sessions |-> <<>>]
    /\ InitSide
    /\ InitUi("ready")

NextDist == ShowAnalyticsTab

SpecDist == InitDist /\ [][NextDist]_vars

(* ------------------------------------------------------------------ *)
(* Properties                                                           *)
(* ------------------------------------------------------------------ *)

\* a step that is one call of analyze()
AnalyzeStep == lastOp' = "analyze" /\ an'.totalFrames = an.totalFrames + 1

\* the normalized values of the eight readings
NormalizedValues(m) ==
    { m.eyeOpenness.normalized, m.browTension.normalized, m.mouthTension.normalized,
      m.asymmetry.normalized, m.headMovement.normalized, m.blinkRate.normalized,
      m.focusScore.normalized, m.headPose.normalized }

\* the raw values of the readings
RawValues(m) ==
    { m.eyeOpenness.ear, m.eyeOpenness.earL, m.eyeOpenness.earR, m.browTension.gap,
      m.mouthTension.ratio, m.asymmetry.value, m.headMovement.value,
      Num(m.blinkRate.bpm), m.headPose.pitch, m.headPose.yaw, m.headPose.roll }

\* C1: the stress value analyze() returns is an integer in 0..100, for every
\* 68-point landmark set and box and after any earlier analyze()/reset() calls.
C1_StressInRange ==
    result # Null =>
        /\ IsInteger(result[1].stress)
        /\ Ge(result[1].stress, Num(0))
        /\ Le(result[1].stress, Num(100))

\* C2: each of the eight readings analyze() returns has its normalized value
\* within [0, 1].
C2_NormalizedInUnit ==
    result # Null =>
        \A x \in NormalizedValues(result[1].metrics) : Ge(x, Num(0)) /\ Le(x, Num(1))

\* C3: for 68 points, degenerate geometry included, analyze() returns neither
\* NaN nor Infinity in the stress score or in a raw or normalized field.
C3_AllFinite ==
    result # Null =>
        /\ IsFinite(result[1].stress)
        /\ \A x \in NormalizedValues(result[1].metrics) \cup RawValues(result[1].metrics) :
              IsFinite(x)

\* C4: the recent-history buffer holds at most 120 scores, oldest first: each
\* analyze() appends its score at the end, and once 120 are held the oldest
\* one is evicted by the push.
C4_HistoryFifo ==
    [][AnalyzeStep =>
          /\ Len(an'.history) <= 120
          /\ an'.history =
                IF Len(an.history) < 120
                THEN Append(an.history, result'[1].stress)
                ELSE Append(Tail(an.history), result'[1].stress)]_vars

\* the 121st score of a session has been pushed
C4_Witness == an.totalFrames = 121 /\ Len(an.history) = 120 /\ lastOp = "analyze"

\* the last k elements of a sequence
LastK(q, k) == SubSeq(q, Len(q) - k + 1, Len(q))

\* C5: after n analyze() calls since the last reset the session score list
\* holds the n scores in call order (each call appends its score, nothing is
\* evicted), getSessionStats().total is n, and the recent history is the last
\* min(120, n) elements of the session list.
C5_SessionList ==
    /\ [](/\ Len(an.sessionScores) = an.totalFrames
          /\ an.totalFrames > 0 => getSessionStats(an)[1].total = an.totalFrames
          /\ an.history = LastK(an.sessionScores,
                                IF an.totalFrames < 120 THEN an.totalFrames ELSE 120))
    /\ [][AnalyzeStep => an'.sessionScores = Append(an.sessionScores, result'[1].stress)]_vars

\* more than 120 frames analysed: the history is a proper suffix of the session list
C5_Witness ==
    /\ an.totalFrames = 125
    /\ Len(an.sessionScores) = 125
    /\ Len(an.history) = 120
    /\ an.history[1] = an.sessionScores[6]
    /\ an.history[1] # an.sessionScores[1]

\* C6: immediately after reset(), whatever calls preceded it,
\* getSessionStats() returns null and the recent-history buffer is empty.
C6_EmptyAfterReset ==
    lastOp = "reset" => getSessionStats(an) = Null /\ an.history = <<>>

\* a reset that follows analysed frames
C6_Witness == lastOp = "reset" /\ an.prevPose.pitch # Num(0) /\ clock > 0

\* C7: reset() returns every buffer, latch and counter to its initial empty
\* state, so the results of the analyze() calls that follow, and
\* getSessionStats(), are those of a newly constructed StressAnalyzer.
C7_ResetAsNew ==
    /\ result = twin.result
    /\ getSessionStats(an) = getSessionStats(twin.an)
    /\ lastOp = "reset" =>
          /\ an.history = <<>> /\ an.sessionScores = <<>> /\ an.blinkTimestamps = <<>>
          /\ an.headMovBuf = <<>> /\ an.prevNose = Null /\ ~an.eyeWasClosed
          /\ an.frameCount = 0 /\ an.totalFrames = 0 /\ an.blinkCount = 0

\* frames analysed after a reset that itself followed analysed frames
C7_Witness ==
    /\ lastOp = "analyze"
    /\ twin.an.blinkWindowStart > an.blinkWindowStart
    /\ an.totalFrames >= 2
    /\ Len(blinkLog) = 1

\* how many recorded blink timestamps are less than 60000 ms older than now
RecentBlinks(now) == Cardinality({i \in DOMAIN blinkLog : now - blinkLog[i] < 60000})

\* C8: the bpm analyze() reports at clock time now is the number of recorded
\* blink timestamps t with now - t < 60000; a timestamp 60000 ms old or older
\* does not count and is no longer in the timestamp list.
C8_BlinkWindow ==
    result # Null =>
        /\ result[1].metrics.blinkRate.bpm = RecentBlinks(clock)
        /\ Len(an.blinkTimestamps) = RecentBlinks(clock)
        /\ \A i \in DOMAIN an.blinkTimestamps : clock - an.blinkTimestamps[i] < 60000

\* a recorded blink has become exactly 60000 ms old and has been dropped
C8_Witness ==
    /\ result # Null
    /\ \E i \in DOMAIN blinkLog : clock - blinkLog[i] = 60000
    /\ result[1].metrics.blinkRate.bpm < Len(blinkLog)

\* the frame's mean EAR is below the blink threshold
EyesClosed(r) == Lt(r.metrics.eyeOpenness.ear, Q(21, 100))

\* the frame's mean EAR is at or above the blink threshold
EyesOpen(r) == Ge(r.metrics.eyeOpenness.ear, Q(21, 100))

\* C9: the blink detector is a two-state latch: a frame with mean EAR >= 0.21
\* that directly follows a frame with mean EAR < 0.21 records exactly one blink
\* timestamp; a frame with mean EAR < 0.21 records none, however many came
\* before it; an open frame after an open frame, or first in the session,
\* records none.
C9_BlinkLatch ==
    [][AnalyzeStep =>
          /\ (result # Null /\ EyesClosed(result[1]) /\ EyesOpen(result'[1]))
                => blinkLog' = Append(blinkLog, clock')
          /\ EyesClosed(result'[1]) => blinkLog' = blinkLog
          /\ (result # Null /\ EyesOpen(result[1]) /\ EyesOpen(result'[1]))
                => blinkLog' = blinkLog
          /\ (result = Null /\ EyesOpen(result'[1])) => blinkLog' = blinkLog]_vars

\* the third frame of a session recorded the session's only blink
C9_Witness ==
    /\ an.totalFrames = 3
    /\ Len(blinkLog) = 1
    /\ blinkLog[1] = clock
    /\ EyesOpen(result[1])
    /\ ~an.eyeWasClosed

\* two frames that differ only in their mean EAR: same box, same nose tip,
\* same brow, mouth, asymmetry and pose readings
OnlyEarDiffers(f, g) ==
    /\ f.box = g.box
    /\ f.positions[30] = g.positions[30]
    /\ _browTension(f.positions, FaceSize(f.box)) = _browTension(g.positions, FaceSize(g.box))
    /\ _mouthTension(f.positions, FaceSize(f.box)) = _mouthTension(g.positions, FaceSize(g.box))
    /\ _asymmetry(f.positions, FaceSize(f.box)) = _asymmetry(g.positions, FaceSize(g.box))
    /\ _headPose(f.positions, FaceSize(f.box)) = _headPose(g.positions, FaceSize(g.box))

MeanEar(f) == _eyeOpenness(f.positions, FaceSize(f.box)).ear

\* the pairs <<lower, higher>> of frames that differ only in their mean EAR
EarPairs ==
    {p \in AllFrames \X AllFrames :
        OnlyEarDiffers(p[1], p[2]) /\ Lt(MeanEar(p[1]), MeanEar(p[2]))}

\* the stress analyze() would return for frame f, called now
StressNow(f) == analyze(an, f, clock).out.stress

\* C10 as stated: in any analyzer state, of two frames that differ only in
\* their mean EAR the one with the lower EAR yields a stress score greater than
\* or equal to the other's.
C10_MonotoneInEar ==
    \A p \in EarPairs : Ge(StressNow(p[1]), StressNow(p[2]))

\* how many held blink timestamps are less than 60000 ms old
HeldInWindow == Cardinality({i \in DOMAIN an.blinkTimestamps :
                                clock - an.blinkTimestamps[i] < 60000})

\* C10 amended: the same, in analyzer states that hold fewer than 25 blink
\* timestamps less than 60000 ms old.
C10_MonotoneBelow25 ==
    HeldInWindow < 25 =>
        \A p \in EarPairs : Ge(StressNow(p[1]), StressNow(p[2]))

\* with the latch set and 24 blinks in the window, the lower EAR scores strictly more
C10_Witness ==
    /\ an.eyeWasClosed
    /\ HeldInWindow = 24
    /\ \E p \in EarPairs :
          /\ Lt(MeanEar(p[1]), Q(21, 100)) /\ Ge(MeanEar(p[2]), Q(21, 100))
          /\ Gt(StressNow(p[1]), StressNow(p[2]))

\* scenario A in a result: wide-open eyes, relaxed brows, a closed mouth
\* (height 0), no asymmetry, no head movement, no blink in the last 60 s
ScenarioA(r) ==
    /\ r.metrics.eyeOpenness.normalized = Num(1)
    /\ r.metrics.browTension.normalized = Num(0)
    /\ r.metrics.mouthTension.ratio = Num(0)
    /\ r.metrics.asymmetry.normalized = Num(0)
    /\ r.metrics.headMovement.normalized = Num(0)
    /\ r.metrics.blinkRate.bpm = 0

\* C11 as stated: a frame of scenario A yields a stress score in the CALM
\* band (stress < 20).
C11_ScenarioACalm ==
    (result # Null /\ ScenarioA(result[1])) => Lt(result[1].stress, Num(20))

\* C11 amended: a frame of scenario A yields the stress score 28, in the
\* MILD band: the closed mouth contributes its full weight 18 and the zero
\* blink rate its full weight 10.
C11_ScenarioAMild ==
    (result # Null /\ ScenarioA(result[1])) =>
        /\ result[1].stress = Num(28)
        /\ result[1].level.label = "MILD"
        /\ result[1].metrics.mouthTension.normalized = Num(1)
        /\ result[1].metrics.blinkRate.normalized = Num(1)
        /\ result[1].metrics.focusScore.normalized = Num(1)

\* a frame of scenario A has been analysed, not as the first of its session
C11_Witness ==
    /\ result # Null /\ ScenarioA(result[1])
    /\ an.totalFrames >= 2
    /\ lastOp = "analyze"

\* scenario B in a result: mean EAR below 0.21 and browTension.normalized at
\* least 0.8
ScenarioB(r) ==
    /\ Lt(r.metrics.eyeOpenness.ear, Q(21, 100))
    /\ Ge(r.metrics.browTension.normalized, Q(8, 10))

\* C12 as stated: while the mean EAR has stayed below 0.21 on every frame and
\* browTension.normalized is at least 0.8, every returned stress score is
\* >= 60, whatever the other channels read.
C12_ScenarioBHigh ==
    (result # Null /\ closedRun /\ ScenarioB(result[1])) => Ge(result[1].stress, Num(60))

\* C12 amended: under the same conditions, in frames analysed since
\* construction or the last reset(), every returned stress score is >= 45
\* (MODERATE or higher), and no blink is counted.
C12_ScenarioBModerate ==
    (result # Null /\ closedRun /\ ScenarioB(result[1])) =>
        /\ Ge(result[1].stress, Num(45))
        /\ result[1].level.label \in {"MODERATE", "HIGH", "EXTREME"}
        /\ result[1].metrics.blinkRate.bpm = 0

\* scenario B sustained over several frames with the other channels at rest:
\* the score stays under 60
C12_Witness ==
    /\ result # Null /\ closedRun /\ ScenarioB(result[1])
    /\ an.totalFrames >= 3
    /\ result[1].metrics.mouthTension.normalized = Num(0)
    /\ Lt(result[1].stress, Num(60))

\* the five bands as the ranges of scores they hold
Bands ==
    [b \in {"CALM", "MILD", "MODERATE", "HIGH", "EXTREME"} |->
        CASE b = "CALM"     -> 0..19
          [] b = "MILD"     -> 20..39
          [] b = "MODERATE" -> 40..59
          [] b = "HIGH"     -> 60..79
          [] b = "EXTREME"  -> 80..100]

\* every score of 0..100 lies in exactly one band, the one _level gives it
BandTable ==
    \A s \in 0..100 :
        /\ Cardinality({b \in DOMAIN Bands : s \in Bands[b]}) = 1
        /\ _level(Num(s)).label \in DOMAIN Bands
        /\ s \in Bands[_level(Num(s)).label]

\* C13: every stress score in 0..100 maps to exactly one band (CALM below 20,
\* MILD 20..39, MODERATE 40..59, HIGH 60..79, EXTREME 80..100), and the level
\* analyze() returns is the band of the stress score of the same result.
C13_LevelIsBand ==
    /\ BandTable
    /\ result # Null =>
          /\ IsInteger(result[1].stress)
          /\ result[1].stress.n \in Bands[result[1].level.label]

\* a score on a closed bottom: exactly 60 is HIGH
C13_Witness ==
    /\ result # Null
    /\ result[1].stress = Num(60)
    /\ result[1].level.label = "HIGH"

\* the weights of the composite, in the order eye, brow, mouth, asymmetry,
\* head movement, blink rate, focus
Weights == <<20, 25, 18, 12, 10, 10, 5>>

\* the seven weighted terms of the readings m
Terms(m) ==
    << Sub(Num(1), m.eyeOpenness.normalized), m.browTension.normalized,
       m.mouthTension.normalized, m.asymmetry.normalized,
       m.headMovement.normalized, m.blinkRate.normalized,
       Sub(Num(1), m.focusScore.normalized) >>

\* (1-eyeOpen)*20 + brow*25 + mouth*18 + asym*12 + headMov*10 + blink*10 + (1-focus)*5
WeightedSum(m) == SumSeq([i \in 1..7 |-> Mul(Terms(m)[i], Num(Weights[i]))])

\* the seven scored normalized values of the readings m lie in [0,1]
ScoredInUnit(m) ==
    \A x \in { m.eyeOpenness.normalized, m.browTension.normalized,
               m.mouthTension.normalized, m.asymmetry.normalized,
               m.headMovement.normalized, m.blinkRate.normalized,
               m.focusScore.normalized } : Ge(x, Num(0)) /\ Le(x, Num(1))

\* the integer s is a nearest integer of the number w
Nearest(s, w) == IsInteger(s) /\ IsFinite(w) /\ 2 * AbsInt(s.n * w.d - w.n) <= w.d

\* C20: the weights sum to 100, so for seven normalized values in [0,1] the
\* weighted sum lies in [0,100] before the outer clamp, and the stress score
\* is that sum rounded to the nearest integer.
C20_WeightedSum ==
    /\ SumSeq([i \in 1..7 |-> Num(Weights[i])]) = Num(100)
    /\ (result # Null /\ ScoredInUnit(result[1].metrics)) =>
          /\ Ge(WeightedSum(result[1].metrics), Num(0))
          /\ Le(WeightedSum(result[1].metrics), Num(100))
          /\ Nearest(result[1].stress, WeightedSum(result[1].metrics))

\* a weighted sum above 87 that lies halfway between two integers
C20_Witness ==
    /\ result # Null /\ ScoredInUnit(result[1].metrics)
    /\ result[1].metrics.browTension.normalized = Q(1, 2)
    /\ ~IsInteger(WeightedSum(result[1].metrics))
    /\ Gt(WeightedSum(result[1].metrics), Num(87))

\* the sum of the integer scores of q, summed by halves
RECURSIVE ScoreSum(_)
ScoreSum(q) ==
    IF Len(q) = 0 THEN 0
    ELSE IF Len(q) = 1 THEN q[1].n
    ELSE ScoreSum(SubSeq(q, 1, Len(q) \div 2)) + ScoreSum(SubSeq(q, Len(q) \div 2 + 1, Len(q)))

\* the statistics s are those of the non-empty list q of integer scores
StatsOfScores(s, q) ==
    /\ Nearest(s.avg, Q(ScoreSum(q), Len(q)))
    /\ \E i \in DOMAIN q : s.peak = q[i]
    /\ \A i \in DOMAIN q : q[i].n <= s.peak.n
    /\ \E i \in DOMAIN q : s.min = q[i]
    /\ \A i \in DOMAIN q : q[i].n >= s.min.n
    /\ s.calm = Cardinality({i \in DOMAIN q : q[i].n < 20})
    /\ s.high = Cardinality({i \in DOMAIN q : q[i].n >= 60})
    /\ s.total = Len(q)

\* C14: for a non-empty session score list, getSessionStats() returns avg =
\* the mean of all session scores rounded to the nearest integer, peak = the
\* maximum, min = the minimum, calm = the number of scores < 20, high = the
\* number of scores >= 60, and total = the list length.
C14_SessionStats ==
    (lastOp = "getSessionStats" /\ Len(an.sessionScores) > 0) =>
        /\ \A i \in DOMAIN an.sessionScores : IsInteger(an.sessionScores[i])
        /\ stats # Null
        /\ StatsOfScores(stats[1], an.sessionScores)

\* statistics of a session of ten scores or more, some calm, some high, with
\* a mean that is not an integer
C14_Witness ==
    /\ lastOp = "getSessionStats" /\ stats # Null
    /\ stats[1].total >= 10
    /\ stats[1].calm > 0 /\ stats[1].high > 0
    /\ stats[1].min.n < stats[1].avg.n /\ stats[1].avg.n < stats[1].peak.n
    /\ ScoreSum(an.sessionScores) % Len(an.sessionScores) # 0

\* C15: getSessionStats() returns null whenever no frame has been analysed
\* since construction or since the last reset(), and a stats record as soon as
\* at least one frame has been analysed.
C15_StatsNullIffNoFrame ==
    lastOp = "getSessionStats" =>
        /\ (result = Null) <=> (stats = Null)
        /\ stats # Null => stats[1].total >= 1

\* statistics asked for after the first frame of a session begun by a reset
C15_Witness ==
    /\ lastOp = "getSessionStats"
    /\ stats # Null /\ stats[1].total = 1
    /\ an.prevPose # NewAnalyzer(0).prevPose
    /\ clock > 0

\* the state the analyzer carries from frame to frame
Tracked(st) ==
    << st.history, st.sessionScores, st.blinkTimestamps, st.headMovBuf,
       st.prevNose, st.eyeWasClosed, st.frameCount, st.totalFrames >>

\* C18: the analyzer's state is changed only by analyze() and reset();
\* getSessionStats() leaves all of it unchanged, so that an analyzer asked for
\* statistics between frames carries the same state as one that never was.
C18_StatsLeaveState ==
    /\ [][ /\ lastOp' = "getSessionStats" => an' = an
           /\ an' # an => lastOp' \in {"analyze", "reset"} ]_vars
    /\ [](Tracked(an) = Tracked(twin.an))

\* statistics asked for in the middle of a session
C18_Witness ==
    /\ lastOp = "getSessionStats"
    /\ stats # Null /\ stats[1].total = 2
    /\ an.totalFrames = 2
    /\ an.blinkTimestamps # <<>>

\* the readings of the five channels said to have no memory
Memoryless(m) ==
    << m.eyeOpenness, m.browTension, m.mouthTension, m.asymmetry, m.headPose >>

\* the frames every analyzer is probed with
ProbeFrames == CameraFrames

\* what a newly constructed analyzer reads on each probe frame
FreshReadings == [f \in ProbeFrames |-> Metrics(NewAnalyzer(0), f, 0)]

\* C19: only HeadMovement and BlinkRate carry cross-frame memory: whatever
\* calls an analyzer has served, its eyeOpenness, browTension, mouthTension,
\* asymmetry and headPose readings of a frame are those a newly constructed
\* analyzer gives the same frame (so any two analyzers agree on them).
C19_FiveChannelsMemoryless ==
    \A f \in ProbeFrames :
        Memoryless(Metrics(an, f, clock)) = Memoryless(FreshReadings[f])

\* an analyzer whose past shows in the headMovement and blinkRate readings,
\* and through them in focusScore, of a frame
C19_Witness ==
    /\ an.totalFrames >= 2
    /\ \E f \in ProbeFrames :
          /\ Metrics(an, f, clock).headMovement # FreshReadings[f].headMovement
          /\ Metrics(an, f, clock).blinkRate # FreshReadings[f].blinkRate
          /\ Metrics(an, f, clock).focusScore # FreshReadings[f].focusScore
          /\ Memoryless(Metrics(an, f, clock)) = Memoryless(FreshReadings[f])

\* the bucket that min(9, floor(s / 10)) names for a score s of 0..100
BucketOf(s) == IF s \div 10 > 9 THEN 9 ELSE s \div 10

\* every score of 0..100 is given bucket min(9, floor(s/10)); 95 and 100 are
\* given bucket 9
BucketTable ==
    /\ \A s \in 0..100 : BucketIndex(Num(s)) = Num(BucketOf(s)) /\ BucketOf(s) \in 0..9
    /\ BucketIndex(Num(95)) = Num(9)
    /\ BucketIndex(Num(100)) = Num(9)

\* C16: the distribution maps each score s in 0..100 to bucket
\* min(9, floor(s/10)); for any score list the ten bucket counts sum to the
\* list length; a score of 95 falls in bucket 9 and a score of exactly 100
\* also falls in bucket 9.
C16_Distribution ==
    /\ BucketTable
    /\ dist # Null =>
          /\ dist[1].buckets[0] + dist[1].buckets[1] + dist[1].buckets[2]
               + dist[1].buckets[3] + dist[1].buckets[4] + dist[1].buckets[5]
               + dist[1].buckets[6] + dist[1].buckets[7] + dist[1].buckets[8]
               + dist[1].buckets[9] = Len(dist[1].scores)
          /\ \A i \in 0..9 :
                dist[1].buckets[i] =
                    Cardinality({k \in DOMAIN dist[1].scores :
                                    BucketOf(dist[1].scores[k].n) = i})

\* a list holding 95, 100 and a lower score has been drawn: two in bucket 9
C16_Witness ==
    /\ dist # Null
    /\ Len(dist[1].scores) = 3
    /\ \E i, j \in 1..3 : dist[1].scores[i] = Num(95) /\ dist[1].scores[j] = Num(100)
    /\ dist[1].buckets[9] = 2
    /\ dist[1].buckets[0] = 1

\* C17: analyzer.reset(), which startCamera and stopCamera call (the two
\* that switch state.running), is never executed while a detection-loop frame
\* is in flight, that is between the start of an awaited face detection and
\* the analyze() call that consumes its result.
C17_ResetBarrier == [][running' # running => detecting = <<>>]_vars

\* the three pieces of the blink normalisation, as a table over the counts
BlinkPieces(bpm) ==
    CASE bpm \in 0..7   -> Q(8 - bpm, 8)
      [] bpm \in 8..25  -> Num(0)
      [] bpm \in 26..44 -> Q(bpm - 25, 20)
      [] bpm >= 45      -> Num(1)

\* C28: blinkRate.normalized is (8 - bpm)/8 below 8 blinks a minute (1 at
\* none), exactly 0 for every count in 8..25, and min(1, (bpm - 25)/20) above
\* 25, which is 1 from 45 on.
C28_BlinkPiecewise ==
    result # Null =>
        /\ result[1].metrics.blinkRate.bpm \in Nat
        /\ result[1].metrics.blinkRate.normalized
               = BlinkPieces(result[1].metrics.blinkRate.bpm)
        /\ (result[1].metrics.blinkRate.bpm = 0
               => result[1].metrics.blinkRate.normalized = Num(1))

\* a video has been watched until 45 blinks lie in the window, after counts
\* in each of the lower pieces: the reading has just reached 1
C28_Witness ==
    /\ result # Null
    /\ result[1].metrics.blinkRate.bpm = 45
    /\ result[1].metrics.blinkRate.normalized = Num(1)
    /\ Len(blinkLog) = 45

\* the whole number whose square is k (the steps of the nose are whole)
RootOf(k) == CHOOSE d \in 0..k : d * d = k

\* the sample of the step into frame j of a video: how far the nose tip went
\* from frame j - 1, over the face size
StepSample(v, j) ==
    Q(RootOf((VideoFrameAt(v, j).positions[30].x - VideoFrameAt(v, j - 1).positions[30].x)
                * (VideoFrameAt(v, j).positions[30].x - VideoFrameAt(v, j - 1).positions[30].x)
             + (VideoFrameAt(v, j).positions[30].y - VideoFrameAt(v, j - 1).positions[30].y)
                * (VideoFrameAt(v, j).positions[30].y - VideoFrameAt(v, j - 1).positions[30].y)),
      VideoFrameAt(v, j).box.width)

\* the sum of the samples of the steps into frames lo..hi
RECURSIVE SumOfSteps(_, _, _)
SumOfSteps(v, lo, hi) ==
    IF lo > hi THEN Num(0) ELSE Add(StepSample(v, hi), SumOfSteps(v, lo, hi - 1))

\* the mean of the samples of the last 12 steps at most, after k frames
MeanOfLastSteps(v, k) ==
    IF k <= 1 THEN Num(0)
    ELSE IF k <= 13 THEN Div(SumOfSteps(v, 2, k), Num(k - 1))
    ELSE Div(SumOfSteps(v, k - 11, k), Num(12))

\* the number of samples after k frames: min(12, max(0, k - 1))
SamplesAfter(k) == IF k <= 1 THEN 0 ELSE IF k - 1 <= 12 THEN k - 1 ELSE 12

\* C27: the head-movement buffer never holds more than 12 samples: k frames
\* after the last reset it holds min(12, max(0, k - 1)) of them, the first
\* frame reports head movement 0, and the value reported is the mean of the
\* displacement / faceSize samples of the last 12 steps at most.
C27_MovementBuffer ==
    /\ Len(an.headMovBuf) <= 12
    /\ Len(an.headMovBuf) = SamplesAfter(an.totalFrames)
    /\ (result # Null /\ lastOp # "reset") =>
          result[1].metrics.headMovement.value = MeanOfLastSteps(video, an.totalFrames)

\* fourteen frames into the video: thirteen steps were made, twelve samples
\* are held, and the mean reported is not the mean of all thirteen
C27_Witness ==
    /\ result # Null
    /\ an.totalFrames = 14
    /\ Len(an.headMovBuf) = 12
    /\ result[1].metrics.headMovement.value # Div(SumOfSteps(video, 2, 14), Num(13))
    /\ Gt(result[1].metrics.headMovement.value, Num(0))

\* a face symmetric about its vertical midline, its eye line horizontal: the
\* nose tip halfway between the two eye centres, points 36 and 45 level,
\* point 45 to the right of point 36
SymmetricFace(pts) ==
    /\ 4 * pts[30].x = pts[36].x + pts[39].x + pts[42].x + pts[45].x
    /\ pts[36].y = pts[45].y
    /\ pts[45].x > pts[36].x

\* C26: for landmarks symmetric about the vertical midline with a horizontal
\* eye line, headPose.yaw is 0 and headPose.roll is 0.
C26_SymmetricPose ==
    (result # Null /\ SymmetricFace(VideoFrameAt(video, an.totalFrames).positions)) =>
        /\ result[1].metrics.headPose.yaw = Num(0)
        /\ result[1].metrics.headPose.roll = Num(0)

\* a symmetric face has been analysed whose nose tip sits low (the pitch is
\* not 0 while yaw and roll are)
C26_Witness ==
    /\ result # Null
    /\ lastOp = "analyze"
    /\ SymmetricFace(VideoFrameAt(video, an.totalFrames).positions)
    /\ result[1].metrics.headPose.yaw = Num(0)
    /\ result[1].metrics.headPose.roll = Num(0)
    /\ result[1].metrics.headPose.pitch # Num(0)

\* the session that was current is still current after the step, with the
\* frames and alerts it had and perhaps more
StaysCurrent ==
    /\ sessions'.currentSession # Null
    /\ sessions'.currentSession[1].id = sessions.currentSession[1].id
    /\ Len(sessions'.currentSession[1].frames) >= Len(sessions.currentSession[1].frames)

\* the session that was current heads the stored list after the step, with
\* every frame it had recorded
SavedByStep ==
    /\ Len(sessions'.sessions) > 0
    /\ sessions'.sessions[1].id = sessions.currentSession[1].id
    /\ sessions'.sessions[1].frames = sessions.currentSession[1].frames
    /\ sessions'.sessions[1].endTime # Null

\* C21: every session started by startCamera is saved: a session stops
\* being the current one only by being put in the stored session list, also
\* when startCamera runs again while the session is active.
C21_NoSessionDropped ==
    [][(sessions.currentSession # Null /\ ~StaysCurrent) => SavedByStep]_vars

\* the newest first: no session of the list was started after one before it
NewestFirst(list) ==
    \A i, j \in DOMAIN list : i < j => list[i].id >= list[j].id

\* the step saves a session although 20 are stored
SavesThe21st ==
    /\ Len(sessions.sessions) = 20
    /\ sessions.currentSession # Null
    /\ sessions'.currentSession = Null

\* C22: from a stored list of at most 20 sessions, after any startSession,
\* recordFrame, endSession, deleteSession and clearAll calls the stored list
\* has at most 20 entries, the newest first; when a 21st session is saved the
\* oldest is discarded and the new one is at index 0.
C22_TwentyNewestFirst ==
    /\ [](Len(sessions.sessions) <= 20 /\ NewestFirst(sessions.sessions))
    /\ [][SavesThe21st =>
             /\ Len(sessions'.sessions) = 20
             /\ sessions'.sessions[1].id = sessions.currentSession[1].id
             /\ sessions'.sessions[1].frames = sessions.currentSession[1].frames
             /\ \A i \in 1..19 : sessions'.sessions[i + 1] = sessions.sessions[i]]_vars

\* two sessions were saved on top of a full or nearly full list: 20 are
\* stored, the two new ones first, and the stored sessions 19 and 20 are gone
C22_Witness ==
    /\ Len(sessions.sessions) = 20
    /\ sessions.sessions[1].id >= LoadTime
    /\ sessions.sessions[2].id >= LoadTime
    /\ sessions.sessions[1].id > sessions.sessions[2].id
    /\ sessions.sessions[20] = StoredSession(18)

\* the session the export step writes: the newest of the stored list
Exported == sessions.sessions[1]

\* C23: the exported CSV has the header time_ms, stress, emotion, focus,
\* pitch, yaw, roll, blink_rate in that order, then one row per recorded frame
\* in recording order, whose fields are the frame's t, stress, emotion, focus,
\* pitch, yaw, roll and blink in the order of the header.
C23_CsvColumns ==
    [][download' # download =>
          /\ download'[1].rows[1] = <<"time_ms", "stress", "emotion", "focus",
                                      "pitch", "yaw", "roll", "blink_rate">>
          /\ Len(download'[1].rows) = 1 + Len(Exported.frames)
          /\ \A i \in DOMAIN Exported.frames :
                /\ Len(download'[1].rows[i + 1]) = 8
                /\ download'[1].rows[i + 1][1] = Exported.frames[i].t
                /\ download'[1].rows[i + 1][2] = Exported.frames[i].stress
                /\ download'[1].rows[i + 1][3] = Exported.frames[i].emotion
                /\ download'[1].rows[i + 1][4] = Exported.frames[i].focus
                /\ download'[1].rows[i + 1][5] = Exported.frames[i].pitch
                /\ download'[1].rows[i + 1][6] = Exported.frames[i].yaw
                /\ download'[1].rows[i + 1][7] = Exported.frames[i].roll
                /\ download'[1].rows[i + 1][8] = Exported.frames[i].blink]_vars

\* a session of two frames was exported: the happy frame of score 35 a
\* second into the session, the angry one of score 100 a second later, focus
\* and score differing in both rows
C23_Witness ==
    /\ download # Null
    /\ Len(download[1].rows) = 3
    /\ download[1].rows[2][1] = FramePeriodMs
    /\ download[1].rows[2][2] = Num(35)
    /\ download[1].rows[2][3] = "happy"
    /\ download[1].rows[2][4] # Num(35)
    /\ download[1].rows[3][1] = 2 * FramePeriodMs
    /\ download[1].rows[3][2] = Num(100)
    /\ download[1].rows[3][3] = "angry"
    /\ download[1].rows[3][4] # Num(100)
    /\ download[1].rows[3][6] # Num(0)

\* the scores recorded in a session
RecordedScores(session) == {session.frames[i].stress : i \in DOMAIN session.frames}

\* the sum of the tallies
RECURSIVE TallySum(_)
TallySum(totals) ==
    IF Len(totals) = 0 THEN 0 ELSE totals[1][2] + TallySum(Tail(totals))

\* C29: while a session is recorded, peakStress is the maximum of 0 and the
\* recorded scores, minStress the minimum of 100 and the recorded scores, the
\* frames list holds one entry per recordFrame call in call order (a call adds
\* one frame at the end and keeps the others), and the emotion tallies sum to
\* the number of frames.
C29_SessionTotals ==
    /\ [](sessions.currentSession # Null =>
             /\ sessions.currentSession[1].peakStress
                    \in RecordedScores(sessions.currentSession[1]) \cup {Num(0)}
             /\ \A s \in RecordedScores(sessions.currentSession[1]) \cup {Num(0)} :
                    Ge(sessions.currentSession[1].peakStress, s)
             /\ sessions.currentSession[1].minStress
                    \in RecordedScores(sessions.currentSession[1]) \cup {Num(100)}
             /\ \A s \in RecordedScores(sessions.currentSession[1]) \cup {Num(100)} :
                    Le(sessions.currentSession[1].minStress, s)
             /\ TallySum(sessions.currentSession[1].emotionTotals)
                    = Len(sessions.currentSession[1].frames)
             /\ \A i \in DOMAIN sessions.currentSession[1].emotionTotals :
                    sessions.currentSession[1].emotionTotals[i][2]
                       = Cardinality({k \in DOMAIN sessions.currentSession[1].frames :
                             sessions.currentSession[1].frames[k].emotion
                                = sessions.currentSession[1].emotionTotals[i][1]}))
    /\ [][(/\ sessions.currentSession # Null
            /\ sessions'.currentSession # Null
            /\ sessions'.currentSession[1].frames # sessions.currentSession[1].frames
            /\ sessions'.currentSession[1].frames # <<>>) =>
              /\ Len(sessions'.currentSession[1].frames)
                    = Len(sessions.currentSession[1].frames) + 1
              /\ SubSeq(sessions'.currentSession[1].frames, 1,
                        Len(sessions.currentSession[1].frames))
                    = sessions.currentSession[1].frames
              /\ sessions'.currentSession[1].frames[Len(sessions'.currentSession[1].frames)].t
                    = DateNow(clock') - sessions.currentSession[1].id]_vars

\* two happy frames of score 35 were recorded in the session: the peak and
\* the minimum are 35, and the one tally counts 2
C29_Witness ==
    /\ sessions.currentSession # Null
    /\ Len(sessions.currentSession[1].frames) = 2
    /\ sessions.currentSession[1].frames[1].stress = Num(35)
    /\ sessions.currentSession[1].frames[2].stress = Num(35)
    /\ sessions.currentSession[1].peakStress = Num(35)
    /\ sessions.currentSession[1].minStress = Num(35)
    /\ sessions.currentSession[1].emotionTotals = << <<"happy", 2>> >>

\* the step saves the session that was current
SaveStep ==
    /\ sessions.currentSession # Null
    /\ sessions'.sessions # sessions.sessions
    /\ Len(sessions'.sessions) > 0
    /\ sessions'.sessions[1].id = sessions.currentSession[1].id
    /\ sessions'.sessions[1].endTime # Null

\* C30: with no session active recordFrame and recordAlert change nothing and
\* endSession returns null and leaves the stored list unchanged; endSession
\* clears the current session when it has saved it, so that no later
\* recordFrame call modifies the saved session.
C30_NoSessionNoEffect ==
    /\ [](sessions.currentSession = Null =>
             /\ \A in \in FrameInputs :
                    recordFrame(sessions, in[1], in[2], in[3], DateNow(clock)) = sessions
             /\ recordAlert(sessions) = sessions
             /\ \A st \in StatsInputs :
                    /\ endSessionResult(sessions, st, DateNow(clock)) = Null
                    /\ endSession(sessions, st, DateNow(clock)).sessions = sessions.sessions)
    /\ [](\A in \in FrameInputs :
             recordFrame(sessions, in[1], in[2], in[3], DateNow(clock)).sessions
                = sessions.sessions)
    /\ [][SaveStep => (sessions'.currentSession = Null /\ sess' = Some(sessions'.sessions[1]))]_vars

\* a session of two frames has just been saved: it is what endSession
\* returned, it heads the stored list, and no session is current
C30_Witness ==
    /\ sessions.currentSession = Null
    /\ sess # Null
    /\ Len(sessions.sessions) > 0
    /\ sessions.sessions[1] = sess[1]
    /\ Len(sess[1].frames) = 2

\* the step counts a stress alert; the step plays the alert sound
CountsAlert == alertCount' = alertCount + 1

SoundsAlert == audio'.lastAlert # audio.lastAlert

\* C24: two alert sounds of maybeAlert are at least 8000 ms apart, and two
\* counted stress alerts are more than 8000 ms apart, however many frames at
\* or above the alert threshold come in between: lastAlertTime and
\* audio.lastAlert are the times of the last counted alert and of the last
\* sound, and an alert is counted, or sounded, only that long after them.
C24_AlertCooldown ==
    /\ [][CountsAlert =>
             /\ lastAlertTime' = DateNow(clock')
             /\ DateNow(clock') - lastAlertTime > 8000]_vars
    /\ [][lastAlertTime' # lastAlertTime => CountsAlert]_vars
    /\ [][SoundsAlert =>
             /\ audio'.lastAlert = DateNow(clock')
             /\ DateNow(clock') - audio.lastAlert >= 8000
             /\ CountsAlert]_vars
    /\ [](lastAlertTime <= DateNow(clock) /\ audio.lastAlert <= lastAlertTime)

\* three frames at the threshold: the alert of the first is counted and
\* sounded, none for the second 8000 ms later, the next for the third 8001 ms
\* later
C24_Witness ==
    /\ allStress = <<Num(70), Num(70), Num(70)>>
    /\ TimeOfFrame(2) - TimeOfFrame(1) = 8000
    /\ TimeOfFrame(3) - TimeOfFrame(1) = 8001
    /\ alertCount = 2
    /\ sessions.currentSession[1].alerts = 2
    /\ lastAlertTime = DateNow(TimeOfFrame(3))
    /\ audio.lastAlert = lastAlertTime

\* the step is a frame with a face, and the score it was analysed to
FrameStep == Len(allStress') = Len(allStress) + 1

FrameScore == allStress'[Len(allStress')]

\* the guide is started, or stopped, by the step
GuideStarted == ~breathingActive /\ breathingActive'

GuideStopped == breathingActive /\ ~breathingActive'

C37_GaugeColourIsBandColour ==
    gauge # Null =>
        /\ result # Null
        /\ gauge[1].score = result[1].stress
        /\ gauge[1].color = result[1].level.color

\* the gauge was drawn for the score 80, the first of the EXTREME band
C37_Witness ==
    /\ gauge # Null
    /\ gauge[1].score = Num(80)
    /\ gauge[1].color = "#ff0055"
    /\ result[1].level.label = "EXTREME"

\* C38: whenever getSessionStats() returns a record, 0 <= min <= avg <= peak
\* <= 100, calm + high <= total, and total >= 1.
C38_StatsOrdered ==
    (lastOp = "getSessionStats" /\ stats # Null) =>
        /\ Le(Num(0), stats[1].min)
        /\ Le(stats[1].min, stats[1].avg)
        /\ Le(stats[1].avg, stats[1].peak)
        /\ Le(stats[1].peak, Num(100))
        /\ stats[1].calm + stats[1].high <= stats[1].total
        /\ stats[1].total >= 1

\* C31: the session summary of the Analytics tab shows as its average the
\* average of the stress scores of the session so far, and as its peak the
\* maximum of those scores.
C31_SummaryOfSession ==
    (lastOp = "analyze" /\ summary # Null /\ Len(allStress) > 0) =>
        /\ summary[1].sumAvg = MathRound(Div(SumSeq(allStress), Num(Len(allStress))))
        /\ summary[1].sumPeak = MaxSeq(allStress)

\* C32: at most one detection loop is live: with the camera running, the
\* scheduled detectionLoop callbacks and the detections in flight are never
\* more than one.
C32_OneLoop == running => rafPending + Len(detecting) <= 1

\* C33: once stopCamera has run and until startCamera runs again no frame
\* result is processed: the analyzer is not touched, the status indicator is
\* not set, and the breathing guide is not started.
C33_StoppedIsQuiet ==
    [][(~running /\ ~running') =>
          /\ an'.sessionScores = an.sessionScores
          /\ an'.totalFrames = an.totalFrames
          /\ status' = status
          /\ breathingActive' => breathingActive]_vars

\* C34: in every reachable state state.breathingActive equals the
\* BreathingGuide's own active flag, across the automatic start and stop, the
\* stop on a frame without a face, the manual switch and stopCamera.
C34_GuideFlagsAgree == breathingActive = breathing.active

\* the camera was stopped, after a frame had stopped the guide: both flags
\* are off
C34_Witness ==
    /\ ~running
    /\ status = "ready"
    /\ breathCooldown # 0
    /\ ~breathingActive /\ ~breathing.active
    /\ sess # Null

StopSaves == running /\ ~running' /\ sessions.currentSession # Null

\* the scores of the frames recorded in a session, in order
ScoresRecorded(session) == [i \in 1..Len(session.frames) |-> session.frames[i].stress]

\* C36: when stopCamera saves a session, the analyzer's session score list
\* is the sequence of the scores of the session's recorded frames, the saved
\* avgStress is their rounded mean, the saved peakStress is the analyzer's
\* peak, and the saved frame count is the analyzer's total.
C36_SavedMatchesAnalyzer ==
    [][StopSaves =>
          /\ an.sessionScores = ScoresRecorded(sessions.currentSession[1])
          /\ sess' # Null
          /\ Len(sess'[1].frames) = Len(an.sessionScores)
          /\ Len(an.sessionScores) > 0 =>
                /\ stats' # Null
                /\ sess'[1].avgStress
                      = Some(MathRound(Div(SumSeq(ScoresRecorded(sess'[1])),
                                           Num(Len(sess'[1].frames)))))
                /\ sess'[1].peakStress = stats'[1].peak
                /\ Len(sess'[1].frames) = stats'[1].total]_vars

====
